---- MODULE Spec2Model ----
(***************************************************************************)
(* A model of the rigging toolkit: the scene-object access layer           *)
(* (maya_utils/object_utils.py), the controller utilities                  *)
(* (rig_utils/control_utils.py) and the Singleton rig module               *)
(* (rig_modules/singleton_v0000.py), over a model of the host scene.       *)
(*                                                                         *)
(* Names are strings, as in the source.  A scene node has an identity      *)
(* (a natural number) that survives renaming, as a host node does.         *)
(***************************************************************************)
EXTENDS Integers, Sequences, FiniteSets, TLC

VARIABLES
    scene,      \* the host scene: nodes, attribute values, connections
    module,     \* the Singleton module object (its instance attributes)
    calls,      \* the calls made so far, each with its arguments and outcome
    input       \* the arguments the next calls are made with

vars == <<scene, module, calls, input>>

(***************************************************************************)
(* Bounds of the model.                                                    *)
(***************************************************************************)
MaxBaseLen == 5
MaxCalls == 4

(***************************************************************************)
(* Python string operations, on TLA+ strings.                              *)
(***************************************************************************)
\* sub in s
StrIn(sub, s) ==
    \E i \in 1..(Len(s) - Len(sub) + 1) : SubSeq(s, i, i + Len(sub) - 1) = sub

\* s.find(sub) + 1: the first place sub starts at in s, 0 when there is none
StrFind(s, sub) ==
    LET at == {i \in 1..(Len(s) - Len(sub) + 1) : SubSeq(s, i, i + Len(sub) - 1) = sub}
    IN  IF at = {} THEN 0 ELSE CHOOSE i \in at : \A j \in at : i <= j

\* s.rfind(sub) + 1: the last place sub starts at in s, 0 when there is none
StrRFind(s, sub) ==
    LET at == {i \in 1..(Len(s) - Len(sub) + 1) : SubSeq(s, i, i + Len(sub) - 1) = sub}
    IN  IF at = {} THEN 0 ELSE CHOOSE i \in at : \A j \in at : i >= j

\* s.partition(sep): split at the first sep; <<s, "", "">> when there is none
StrPartition(s, sep) ==
    LET i == StrFind(s, sep)
    IN  IF i = 0 THEN <<s, "", "">>
        ELSE <<SubSeq(s, 1, i - 1), sep, SubSeq(s, i + Len(sep), Len(s))>>

\* s.rpartition(sep): split at the last sep; <<"", "", s>> when there is none
StrRPartition(s, sep) ==
    LET i == StrRFind(s, sep)
    IN  IF i = 0 THEN <<"", "", s>>
        ELSE <<SubSeq(s, 1, i - 1), sep, SubSeq(s, i + Len(sep), Len(s))>>

\* s.endswith(suffix)
StrEndsWith(s, suffix) ==
    /\ Len(s) >= Len(suffix)
    /\ SubSeq(s, Len(s) - Len(suffix) + 1, Len(s)) = suffix

\* the strings over an alphabet, of length at most n
RECURSIVE StringsUpTo(_, _)
StringsUpTo(alphabet, n) ==
    IF n = 0 THEN {""}
    ELSE LET shorter == StringsUpTo(alphabet, n - 1)
         IN  shorter \cup {s \o c : s \in shorter, c \in alphabet}

(***************************************************************************)
(* control_utils: the naming convention.                                   *)
(***************************************************************************)
CTRL_SUFFIX == "ctrl"
LOCATOR_SUFFIX == "loc"

\* '_{}'.format(suffix)
SuffixName(suffix) == "_" \o suffix

check_control_suffix_name(object_name) ==
    IF StrIn(SuffixName(CTRL_SUFFIX), object_name) THEN TRUE ELSE FALSE

StrPartitionHead(s, sep) == StrPartition(s, sep)[1]

StrRPartitionHead(s, sep) == StrRPartition(s, sep)[1]

\* remove_control_suffix_name splitting at the first suffix instead of the last
remove_control_suffix_name_first(object_name) ==
    StrPartitionHead(object_name, SuffixName(CTRL_SUFFIX))

remove_control_suffix_name(object_name) ==
    StrRPartitionHead(object_name, SuffixName(CTRL_SUFFIX))

(***************************************************************************)
(* The host scene.  scene.nodes maps a node's identity to its name, type,  *)
(* DAG parent (0: the world), stored attribute values and locked           *)
(* attributes; scene.conns holds the plug-to-plug connections and          *)
(* scene.constraints the parent constraints.  Nodes live in the root       *)
(* namespace and their names are legal identifiers, unique in the scene.   *)
(* scene.selection is the active selection, in the order the nodes were    *)
(* selected; scene.trackSelectionOrder is the preference of that name;     *)
(* scene.modified says the scene has changes that are not saved.           *)
(* scene.shape_files is the controller-data directory on disk, which the   *)
(* host session reads and writes: the files in the order the directory     *)
(* lists them, each with its name and its JSON content.                    *)
(***************************************************************************)
EmptyScene ==
    [nodes |-> <<>>, next_id |-> 1, conns |-> {}, constraints |-> {},
     selection |-> <<>>, trackSelectionOrder |-> FALSE, modified |-> FALSE,
     shape_files |-> <<>>, contained |-> {}]

\* the host's node types: the MFn function sets a node of the type has
HostFnSets ==
    [transform      |-> {"kTransform", "kDagNode"},
     joint          |-> {"kJoint", "kTransform", "kDagNode"},
     nurbsCurve     |-> {"kNurbsCurve", "kDagNode"},
     mesh           |-> {"kMesh", "kDagNode"},
     locator        |-> {"kLocator", "kDagNode"},
     camera         |-> {"kCamera", "kDagNode"},
     objectSet      |-> {"kSet"},
     skinCluster    |-> {"kSkinClusterFilter"},
     unitConversion |-> {"kUnitConversion"},
     container      |-> {"kContainer"},
     parentConstraint |-> {"kTransform", "kDagNode"}]

HostNodeTypes == DOMAIN HostFnSets

\* the types whose nodes are shapes: the host puts a new one under a new transform
HostShapeTypes == {"nurbsCurve", "mesh", "locator", "camera"}

\* the types whose nodes carry the transform channels
HostTransformTypes == {t \in HostNodeTypes : "kTransform" \in HostFnSets[t]}

\* the default transform-attribute table (attribute_utils.Attributes.DEFAULT_ATTR_VALUES)
DEFAULT_ATTR_VALUES ==
    [translateX |-> 0, translateY |-> 0, translateZ |-> 0,
     rotateX |-> 0, rotateY |-> 0, rotateZ |-> 0,
     scaleX |-> 1, scaleY |-> 1, scaleZ |-> 1]

NodeIds(sc) == DOMAIN sc.nodes

NodeNames(sc) == {sc.nodes[i].name : i \in NodeIds(sc)}

\* cmds.objExists(name)
cmds_objExists(sc, name) == name \in NodeNames(sc)

\* the node a name resolves to
NodeId(sc, name) == CHOOSE i \in NodeIds(sc) : sc.nodes[i].name = name

\* the name the host gives a node asked to be called name: name itself when it
\* is free, and otherwise name with the first free number appended
UniqueName(sc, name) ==
    IF name \notin NodeNames(sc) THEN name
    ELSE LET free == {k \in 1..(Cardinality(NodeIds(sc)) + 1) :
                        (name \o ToString(k)) \notin NodeNames(sc)}
         IN  name \o ToString(CHOOSE k \in free : \A j \in free : k <= j)

\* the name the host gives a node created without one
DefaultName(sc, type) ==
    LET free == {k \in 1..(Cardinality(NodeIds(sc)) + 1) :
                    (type \o ToString(k)) \notin NodeNames(sc)}
    IN  type \o ToString(CHOOSE k \in free : \A j \in free : k <= j)

NewNode(name, type, parent) ==
    [name |-> name, type |-> type, parent |-> parent,
     attrs |-> IF type \in HostTransformTypes THEN DEFAULT_ATTR_VALUES ELSE <<>>,
     locked |-> {}]

AddNode(sc, name, type, parent) ==
    [sc EXCEPT !.nodes = (sc.next_id :> NewNode(name, type, parent)) @@ @,
               !.next_id = @ + 1,
               !.modified = TRUE]

\* cmds.select(names, replace=True): the selection becomes these nodes
Selected(sc, ids) == [sc EXCEPT !.selection = ids]

\* a node and everything below it in the DAG
RECURSIVE Descendants(_, _)
Descendants(sc, ids) ==
    LET below == ids \cup {i \in NodeIds(sc) : sc.nodes[i].parent \in ids}
    IN  IF below = ids THEN ids ELSE Descendants(sc, below)

RemoveNodes(sc, ids) ==
    LET gone == Descendants(sc, ids)
    IN  [sc EXCEPT
            !.nodes = [i \in NodeIds(sc) \ gone |-> sc.nodes[i]],
            !.conns = {c \in @ : c[1][1] \notin gone /\ c[2][1] \notin gone},
            !.constraints = {c \in @ : c.driver \notin gone /\ c.driven \notin gone},
            !.selection = SelectSeq(@, LAMBDA i : i \notin gone),
            !.contained = {c \in @ : c[1] \notin gone /\ c[2] \notin gone},
            !.modified = TRUE]

\* the outcome of a host command or of a function of the toolkit
Returned(sc, ret) == [scene |-> sc, raised |-> "", ret |-> ret]
Raised(sc, error) == [scene |-> sc, raised |-> error, ret |-> ""]

\* cmds.createNode(node_type, name=node_name): the name of the new node, which
\* the host leaves selected
cmds_createNode(sc, node_type, node_name) ==
    IF node_type \notin HostNodeTypes THEN Raised(sc, "RuntimeError")
    ELSE IF node_type \in HostShapeTypes
    THEN LET stem == IF node_name = "" THEN "" ELSE StrRPartitionHead(node_name, "Shape")
             t_name == IF stem # "" /\ StrEndsWith(node_name, "Shape")
                       THEN UniqueName(sc, stem) ELSE DefaultName(sc, "transform")
             with_t == AddNode(sc, t_name, "transform", 0)
             s_name == IF node_name = "" THEN DefaultName(with_t, node_type)
                       ELSE UniqueName(with_t, node_name)
         IN  Returned(Selected(AddNode(with_t, s_name, node_type, sc.next_id),
                               <<sc.next_id + 1>>), s_name)
    ELSE LET name == IF node_name = "" THEN DefaultName(sc, node_type)
                     ELSE UniqueName(sc, node_name)
         IN  Returned(Selected(AddNode(sc, name, node_type, 0), <<sc.next_id>>), name)

\* cmds.rename(object_name, new_name): the name the node got
cmds_rename(sc, object_name, new_name) ==
    IF ~cmds_objExists(sc, object_name) THEN Raised(sc, "RuntimeError")
    ELSE LET id == NodeId(sc, object_name)
             name == IF new_name = object_name THEN new_name ELSE UniqueName(sc, new_name)
         IN  Returned([sc EXCEPT !.nodes[id].name = name, !.modified = TRUE], name)

\* cmds.delete(names): a name that matches no object fails the command
cmds_delete(sc, names) ==
    IF \E i \in 1..Len(names) : ~cmds_objExists(sc, names[i])
    THEN Raised(sc, "ValueError")
    ELSE Returned(RemoveNodes(sc, {NodeId(sc, names[i]) : i \in 1..Len(names)}), "")

\* A transformation matrix, for transforms that translate along X and rotate
\* about X and are not scaled: such matrices compose by adding the translations
\* and the angles.
Matrix(t, r) == [t |-> t, r |-> r]

IdentityMatrix == Matrix(0, 0)

IsTransform(sc, id) == id \in NodeIds(sc) /\ sc.nodes[id].type \in HostTransformTypes

\* the matrix of a node in the space of its parent
LocalMatrix(sc, id) ==
    IF IsTransform(sc, id)
    THEN Matrix(sc.nodes[id].attrs.translateX, sc.nodes[id].attrs.rotateX)
    ELSE IdentityMatrix

\* the matrix of a node in world space: its own after those of its ancestors
RECURSIVE WorldMatrix(_, _)
WorldMatrix(sc, id) ==
    IF id = 0 THEN IdentityMatrix
    ELSE LET above == WorldMatrix(sc, sc.nodes[id].parent)
             own == LocalMatrix(sc, id)
         IN  Matrix(above.t + own.t, above.r + own.r)

\* a node given the local matrix m: the other channels are at their defaults
WithLocalMatrix(sc, id, m) ==
    [sc EXCEPT !.nodes[id].attrs =
                   [DEFAULT_ATTR_VALUES EXCEPT !.translateX = m.t, !.rotateX = m.r],
               !.modified = TRUE]

\* a node given the world matrix m under the parent it has
WithWorldMatrix(sc, id, m) ==
    LET above == WorldMatrix(sc, sc.nodes[id].parent)
    IN  WithLocalMatrix(sc, id, Matrix(m.t - above.t, m.r - above.r))

\* cmds.xform(name, q=1, <flag>=1, ws=ws): flag is "m" (the matrix), "t" (the
\* translation) or "ro" (the rotation)
cmds_xform_query(sc, name, flag, ws) ==
    IF ~cmds_objExists(sc, name) THEN Raised(sc, "ValueError")
    ELSE IF ~IsTransform(sc, NodeId(sc, name)) THEN Raised(sc, "RuntimeError")
    ELSE LET m == IF ws THEN WorldMatrix(sc, NodeId(sc, name))
                  ELSE LocalMatrix(sc, NodeId(sc, name))
         IN  Returned(sc, IF flag = "m" THEN m
                          ELSE IF flag = "t" THEN Matrix(m.t, 0)
                          ELSE Matrix(0, m.r))

\* cmds.xform(name, <flag>=value, ws=ws)
cmds_xform(sc, name, flag, value, ws) ==
    IF ~cmds_objExists(sc, name) THEN Raised(sc, "ValueError")
    ELSE IF ~IsTransform(sc, NodeId(sc, name)) THEN Raised(sc, "RuntimeError")
    ELSE LET id == NodeId(sc, name)
             now == IF ws THEN WorldMatrix(sc, id) ELSE LocalMatrix(sc, id)
             m == IF flag = "m" THEN value
                  ELSE IF flag = "t" THEN Matrix(value.t, now.r)
                  ELSE Matrix(now.t, value.r)
         IN  Returned(IF ws THEN WithWorldMatrix(sc, id, m) ELSE WithLocalMatrix(sc, id, m), "")

\* cmds.parent(child, parent): the child keeps its place in the world and is
\* left selected
cmds_parent(sc, child, parent) ==
    IF ~cmds_objExists(sc, child) \/ ~cmds_objExists(sc, parent)
    THEN Raised(sc, "ValueError")
    ELSE IF NodeId(sc, parent) \in Descendants(sc, {NodeId(sc, child)})
    THEN Raised(sc, "RuntimeError")
    ELSE LET id == NodeId(sc, child)
             moved == [sc EXCEPT !.nodes[id].parent = NodeId(sc, parent)]
             kept == IF IsTransform(sc, id)
                     THEN WithWorldMatrix(moved, id, WorldMatrix(sc, id))
                     ELSE [moved EXCEPT !.modified = TRUE]
         IN  Returned(Selected(kept, <<id>>), child)

\* cmds.group(name=name, em=1): a new empty transform under the world, selected
cmds_group(sc, name) ==
    LET grp == UniqueName(sc, name)
    IN  Returned(Selected(AddNode(sc, grp, "transform", 0), <<sc.next_id>>), grp)

\* cmds.parentConstraint(driver, driven, mo=maintain_offset)
cmds_parentConstraint(sc, driver, driven, maintain_offset) ==
    IF ~cmds_objExists(sc, driver) \/ ~cmds_objExists(sc, driven)
    THEN Raised(sc, "ValueError")
    ELSE Returned([sc EXCEPT !.constraints = @ \cup
                      {[driver |-> NodeId(sc, driver), driven |-> NodeId(sc, driven),
                        mo |-> maintain_offset]},
                      !.modified = TRUE], "")

(***************************************************************************)
(* The state outside a specification's concern.                            *)
(***************************************************************************)
NoScene == [nodes |-> <<>>]
NoModule == [name |-> ""]
NoInput == [none |-> TRUE]

Called(op) == \E i \in 1..Len(calls) : calls[i].op = op
CallOf(op) == calls[CHOOSE i \in 1..Len(calls) : calls[i].op = op]

(***************************************************************************)
(* rig_modules/singleton_v0000.py: the Singleton module.  The module       *)
(* object is the record of the attributes an instance has: those           *)
(* Singleton.__init__ assigns, the class attribute suffix_name, and those  *)
(* of the TemplateModule base (name, class_name, PUBLISH_ATTRIBUTES,       *)
(* ATTRIBUTE_EDIT_TYPES).                                                  *)
(***************************************************************************)
\* Singleton(name, control_shape, prefix_name), with the published parameters
\* parentTo and constrainTo as the caller has set them
Singleton(name, control_shape, prefix_name, parent_to, constrain_to) ==
    [class_name |-> "Singleton",
     suffix_name |-> "_guide_jnt",
     PUBLISH_ATTRIBUTES |-> [parentTo |-> parent_to, constrainTo |-> constrain_to],
     ATTRIBUTE_EDIT_TYPES |-> <<>>,
     name |-> name,
     prefix_name |-> prefix_name,
     control_shape |-> control_shape,
     controller_data |-> <<>>,
     guide_joints |-> <<>>]

\* joint_utils.create_joint(name, prefix_name, suffix_name, as_strings=True):
\* one joint named prefix + name + suffix; the names of the joints made
joint_utils_create_joint(sc, name, prefix_name, suffix_name) ==
    LET joint_name == UniqueName(sc, prefix_name \o name \o suffix_name)
    IN  Returned(AddNode(sc, joint_name, "joint", 0), <<joint_name>>)

\* joint_utils.get_joint_name(prefix_name, name, idx, suffix_name)
joint_utils_get_joint_name(prefix_name, name, idx, suffix_name) ==
    prefix_name \o name \o "_" \o ToString(idx) \o suffix_name

\* control_utils.create_controllers_with_standard_constraints(name, objects_array,
\* shape_name): a controller curve under one offset group, and a maintain-offset
\* parent constraint from the controller to the object
create_controllers_with_standard_constraints(sc, name, objects_array, shape_name) ==
    LET ctrl == UniqueName(sc, name \o SuffixName(CTRL_SUFFIX))
        grp == ctrl \o "_grp"
        grp_id == sc.next_id
        with_grp == AddNode(sc, grp, "transform", 0)
        ctrl_id == with_grp.next_id
        with_ctrl == AddNode(with_grp, ctrl, "transform", grp_id)
        with_shape == AddNode(with_ctrl, ctrl \o "Shape", "nurbsCurve", ctrl_id)
        done == cmds_parentConstraint(with_shape, ctrl, objects_array, TRUE)
    IN  IF done.raised # "" THEN done
        ELSE Returned(done.scene, [controller |-> ctrl, group_names |-> <<grp>>])

\* what a method of the module leaves: the scene, the module object, the
\* exception raised ("" when it returned) and the value returned
ModuleOutcome(sc, m, raised, ret) ==
    [scene |-> sc, module |-> m, raised |-> raised, ret |-> ret]

\* Singleton.create with an existence guard: a module that has a guide joint
\* makes no other
Singleton_create_once(sc, m) ==
    IF m.guide_joints # <<>> THEN ModuleOutcome(sc, m, "", TRUE)
    ELSE ModuleOutcome(joint_utils_create_joint(sc, m.name, m.prefix_name, m.suffix_name).scene,
                       [m EXCEPT !.guide_joints =
                            Append(@, joint_utils_create_joint(sc, m.name, m.prefix_name,
                                                               m.suffix_name).ret[1])],
                       "", TRUE)

\* Singleton.create_joint, Singleton.create
Singleton_create(sc, m) ==
    LET made == joint_utils_create_joint(sc, m.name, m.prefix_name, m.suffix_name)
    IN  ModuleOutcome(made.scene,
                      [m EXCEPT !.guide_joints = Append(@, made.ret[1])],
                      "", TRUE)

\* the loop of Singleton.rename from index idx on: the first rename the host
\* refuses ends it
RECURSIVE RenameGuideJoints(_, _, _, _)
RenameGuideJoints(sc, m, name, idx) ==
    IF idx >= Len(m.guide_joints) THEN Returned(sc, "")
    ELSE LET new_name == joint_utils_get_joint_name("", name, idx, m.suffix_name)
             renamed == cmds_rename(sc, m.guide_joints[idx + 1], new_name)
         IN  IF renamed.raised # "" THEN renamed
             ELSE RenameGuideJoints(renamed.scene, m, name, idx + 1)

\* Singleton.rename
Singleton_rename(sc, m, name) ==
    LET done == RenameGuideJoints(sc, m, name, 0)
    IN  ModuleOutcome(done.scene, m, done.raised, "")

\* Singleton.remove
Singleton_remove(sc, m) ==
    LET done == cmds_delete(sc, m.guide_joints)
    IN  ModuleOutcome(done.scene, m, done.raised, "")

\* Singleton.create_controller
Singleton_create_controller(sc, m, constraint_object) ==
    create_controllers_with_standard_constraints(
        sc, m.prefix_name \o m.name, constraint_object, m.control_shape)

\* the rest of Singleton.finish, once the controller is made
FinishWiring(sc, m) ==
    LET parent_to == m.PUBLISH_ATTRIBUTES.parentTo
        constrain_to == m.PUBLISH_ATTRIBUTES.constrainTo
        constrained == IF constrain_to # ""
                       THEN cmds_parentConstraint(sc, m.controller_data.controller,
                                                  constrain_to, TRUE)
                       ELSE Returned(sc, "")
        groups == m.controller_data.group_names
        parented == IF constrained.raised = "" /\ parent_to # ""
                    THEN cmds_parent(constrained.scene, groups[Len(groups)], parent_to)
                    ELSE constrained
    IN  ModuleOutcome(parented.scene, m, parented.raised,
                      IF parented.raised = "" THEN TRUE ELSE "")

\* Singleton.finish: it reads self.guide_joint, an attribute the instance has
\* only if something assigned it
Singleton_finish(sc, m) ==
    IF "guide_joint" \notin DOMAIN m
    THEN ModuleOutcome(sc, m, "AttributeError", "")
    ELSE LET made == Singleton_create_controller(sc, m, m["guide_joint"])
         IN  IF made.raised # ""
             THEN ModuleOutcome(made.scene, m, made.raised, "")
             ELSE FinishWiring(made.scene, [m EXCEPT !.controller_data = made.ret])

(***************************************************************************)
(* SpecModule: one Singleton module and the calls a build script makes on  *)
(* it, in any order, in an empty scene or in one that holds the nodes the  *)
(* published parameters name.                                              *)
(***************************************************************************)
ModuleNames == {"arm", "leg"}

\* a scene with a rig root to parent under and a node to constrain
RigScene ==
    AddNode(AddNode(EmptyScene, "root", "transform", 0), "target", "transform", 0)

InitModule ==
    /\ \E name \in ModuleNames :
        \/ /\ scene = EmptyScene
           /\ module = Singleton(name, "cube", "", "", "")
        \/ /\ scene = RigScene
           /\ \E parent_to \in {"", "root"}, constrain_to \in {"", "target"} :
                module = Singleton(name, "cube", "", parent_to, constrain_to)
    /\ calls = <<>>
    /\ input = NoInput

\* a method of the module is called: the scene and the module object become
\* what it leaves, and the call is logged with what it did
ModuleCalled(op, name, out, joints) ==
    /\ Len(calls) < MaxCalls
    /\ scene' = out.scene
    /\ module' = out.module
    /\ calls' = Append(calls, [op |-> op, name |-> name, raised |-> out.raised,
                               joints |-> joints])
    /\ UNCHANGED input

\* the guide joints of the module, as nodes: the joints its create() calls made
CreatedJoints ==
    UNION {calls[i].joints : i \in {j \in 1..Len(calls) : calls[j].op = "create"}}

Create ==
    ModuleCalled("create", "", Singleton_create(scene, module), {scene.next_id})

Rename ==
    \E name \in ModuleNames :
        ModuleCalled("rename", name, Singleton_rename(scene, module, name), {})

\* remove() with no guide joint yet passes the host an empty list, which
\* deletes by the selection: the model calls it on a module that has created
Remove ==
    /\ module.guide_joints # <<>>
    /\ ModuleCalled("remove", "", Singleton_remove(scene, module), {})

Finish ==
    ModuleCalled("finish", "", Singleton_finish(scene, module), {})

NextModule ==
    \/ Create
    \/ Rename
    \/ Remove
    \/ Finish

SpecModule == InitModule /\ [][NextModule]_vars

\* the calls made are only those named, and the last of them is op
LastCallIs(op, before) ==
    /\ calls # <<>>
    /\ calls[Len(calls)].op = op
    /\ \A i \in 1..(Len(calls) - 1) : calls[i].op \in before
    /\ \E i \in 1..(Len(calls) - 1) : calls[i].op = "create"

\* the node the k-th create() call made
GuideJointNode(k) ==
    LET creates == SelectSeq(calls, LAMBDA c : c.op = "create")
    IN  CHOOSE i \in creates[k].joints : TRUE

NodesOfType(sc, type) == {i \in NodeIds(sc) : sc.nodes[i].type = type}

\* C1: from an empty scene, Singleton("arm").create() then finish() with neither
\* parentTo nor constrainTo completes and leaves exactly one joint, named
\* arm_guide_jnt, one controller curve and one maintain-offset parent constraint
\* from the controller to that joint, with nothing parented anywhere else.
C1_EndToEnd ==
    (/\ module.name = "arm"
     /\ ~cmds_objExists(scene, "root")
     /\ Len(calls) = 2
     /\ calls[1].op = "create"
     /\ calls[2].op = "finish")
    => /\ calls[2].raised = ""
       /\ {scene.nodes[i].name : i \in NodesOfType(scene, "joint")} = {"arm_guide_jnt"}
       /\ Cardinality(NodesOfType(scene, "joint")) = 1
       /\ Cardinality(NodesOfType(scene, "nurbsCurve")) = 1
       /\ scene.constraints =
            {[driver |-> NodeId(scene, module.controller_data.controller),
              driven |-> NodeId(scene, "arm_guide_jnt"),
              mo |-> TRUE]}
       /\ \A i \in NodeIds(scene) :
            scene.nodes[i].parent # 0 =>
                scene.nodes[i].parent \in
                    {NodeId(scene, module.controller_data.controller),
                     NodeId(scene, module.controller_data.group_names[1])}

\* C2: after create(), rename(name) may be called any number of times in a row:
\* every call succeeds and leaves the module's i-th guide joint named by the
\* new name, the index i and the suffix _guide_jnt.
C2_RenameRepeatable ==
    LastCallIs("rename", {"create", "rename"})
    => /\ calls[Len(calls)].raised = ""
       /\ \A idx \in 0..(Len(module.guide_joints) - 1) :
            /\ GuideJointNode(idx + 1) \in NodeIds(scene)
            /\ scene.nodes[GuideJointNode(idx + 1)].name =
                 joint_utils_get_joint_name("", calls[Len(calls)].name, idx,
                                            module.suffix_name)

\* C3: after any number of create() calls, with rename() calls in between,
\* remove() succeeds, no guide joint the module created exists afterwards, and
\* the module tracks no guide joint, so that create() and remove() work again.
C3_RemoveResets ==
    LastCallIs("remove", {"create", "rename", "remove"})
    => /\ calls[Len(calls)].raised = ""
       /\ CreatedJoints \cap NodeIds(scene) = {}
       /\ module.guide_joints = <<>>

\* C4: on a module that has been created, finish() parents the controller's
\* outermost offset group under parentTo when parentTo is given and makes a
\* maintain-offset parent constraint from the controller to constrainTo when
\* constrainTo is given, and does neither for a parameter that is empty.
C4_FinishWires ==
    LastCallIs("finish", {"create", "rename"})
    => /\ calls[Len(calls)].raised = ""
       /\ LET parent_to == module.PUBLISH_ATTRIBUTES.parentTo
              constrain_to == module.PUBLISH_ATTRIBUTES.constrainTo
              groups == module.controller_data.group_names
              outermost == NodeId(scene, groups[Len(groups)])
              controller == NodeId(scene, module.controller_data.controller)
          IN  /\ parent_to # "" =>
                    scene.nodes[outermost].parent = NodeId(scene, parent_to)
              /\ parent_to = "" => scene.nodes[outermost].parent = 0
              /\ constrain_to # "" =>
                    [driver |-> controller, driven |-> NodeId(scene, constrain_to),
                     mo |-> TRUE] \in scene.constraints
              /\ constrain_to = "" =>
                    \A c \in scene.constraints :
                        c.driver = controller =>
                            scene.nodes[c.driven].type = "joint"

(***************************************************************************)
(* maya_utils/object_utils.py.  An argument the code tests the Python type *)
(* of is a value with its kind: a str, a bool, an int (an MFn type         *)
(* identifier, held by its name), None, or an MObject handle (held by the  *)
(* identity of its node).                                                  *)
(***************************************************************************)
PyStr(s) == [kind |-> "str", str |-> s, id |-> 0]
PyBool(b) == [kind |-> "bool", str |-> "", id |-> IF b THEN 1 ELSE 0]
PyInt(fn) == [kind |-> "int", str |-> fn, id |-> 0]
PyNone == [kind |-> "NoneType", str |-> "", id |-> 0]
MObject(id) == [kind |-> "MObject", str |-> "", id |-> id]

\* the truth value Python gives a value
Truthy(v) ==
    CASE v.kind = "str" -> v.str # ""
      [] v.kind = "bool" -> v.id # 0
      [] v.kind = "int" -> TRUE
      [] v.kind = "NoneType" -> FALSE
      [] v.kind = "MObject" -> TRUE

\* the node-type table
node_types ==
    [nurbsCurve     |-> "kNurbsCurve",
     locator        |-> "kLocator",
     mesh           |-> "kMesh",
     nurbsSurface   |-> "kNurbsSurface",
     unitConversion |-> "kUnitConversion",
     blendWeighted  |-> "kBlendWeighted",
     transform      |-> "kTransform",
     follicle       |-> "kFollicle",
     dag            |-> "kDagNode",
     joint          |-> "kJoint",
     component      |-> "kComponent",
     lattice        |-> "kLattice",
     blendShape     |-> "kBlendShape",
     animCurve      |-> "kAnimCurve",
     set            |-> "kSet",
     camera         |-> "kCamera",
     skin           |-> "kSkin",
     skinCluster    |-> "kSkinClusterFilter",
     tweak          |-> "kTweak",
     bend           |-> "kDeformBend",
     squash         |-> "kDeformSquash",
     cluster        |-> "kCluster",
     deltaMush      |-> "kDeltaMush",
     wire           |-> "kWire",
     sculpt         |-> "kSculpt",
     wrap           |-> "kWrapFilter",
     shrinkWrap     |-> "kShrinkWrapFilter"]

\* what a query of the toolkit leaves: the exception raised ("" when it
\* returned), the value returned and the names it resolved to scene nodes
Answer(raised, ret, resolved) == [raised |-> raised, ret |-> ret, resolved |-> resolved]

\* get_m_obj(object_str): the handle of the node a name resolves to; anything
\* but a name is handed back as it is
get_m_obj(sc, object_str) ==
    IF object_str.kind = "str"
    THEN IF cmds_objExists(sc, object_str.str)
         THEN Answer("", MObject(NodeId(sc, object_str.str)), <<object_str.str>>)
         ELSE Answer("RuntimeError", PyNone, <<object_str.str>>)
    ELSE Answer("", object_str, <<>>)

\* MObject.hasFn(fn)
MObject_hasFn(sc, m_object, fn) == fn \in HostFnSets[sc.nodes[m_object.id].type]

\* the test of shape_type without the membership test of line 910
HasFnOfHandleUnchecked(sc, m_object, shape_type) ==
    IF shape_type.kind = "str"
    THEN IF shape_type.str \notin DOMAIN node_types
         THEN Answer("KeyError", PyNone, <<>>)
         ELSE Answer("", PyBool(MObject_hasFn(sc, m_object, node_types[shape_type.str])), <<>>)
    ELSE IF shape_type.kind = "int"
    THEN Answer("", PyBool(MObject_hasFn(sc, m_object, shape_type.str)), <<>>)
    ELSE Answer("", PyNone, <<>>)

\* the body of has_fn once item_name is a handle
HasFnOfHandle(sc, m_object, shape_type) ==
    IF shape_type.kind = "str"
    THEN IF shape_type.str \notin DOMAIN node_types
         THEN Answer("", PyBool(FALSE), <<>>)
         ELSE Answer("", PyBool(MObject_hasFn(sc, m_object, node_types[shape_type.str])), <<>>)
    ELSE IF shape_type.kind = "int"
    THEN Answer("", PyBool(MObject_hasFn(sc, m_object, shape_type.str)), <<>>)
    ELSE Answer("", PyNone, <<>>)

\* has_fn(item_name, shape_type)
has_fn(sc, item_name, shape_type) ==
    LET item == get_m_obj(sc, item_name)
    IN  IF item.raised # "" THEN item
        ELSE LET had == HasFnOfHandle(sc, item.ret, shape_type)
             IN  Answer(had.raised, had.ret, item.resolved)

(***************************************************************************)
(* SpecHasFn: has_fn asked of a node of each host type, by name and by     *)
(* handle, with every short name of the table, names that are not in it,   *)
(* raw type identifiers and None.                                          *)
(***************************************************************************)
\* a scene with one node of each type: a transform over a curve, a joint, a
\* transform over a mesh, and nodes outside the DAG
TypeScene ==
    LET s1 == AddNode(EmptyScene, "ctrl", "transform", 0)
        s2 == AddNode(s1, "ctrlShape", "nurbsCurve", 1)
        s3 == AddNode(s2, "jnt", "joint", 0)
        s4 == AddNode(s3, "geo", "transform", 0)
        s5 == AddNode(s4, "geoShape", "mesh", 4)
        s6 == AddNode(s5, "loc", "transform", 0)
        s7 == AddNode(s6, "locShape", "locator", 6)
        s8 == AddNode(s7, "cam", "transform", 0)
        s9 == AddNode(s8, "camShape", "camera", 8)
        s10 == AddNode(s9, "set1", "objectSet", 0)
        s11 == AddNode(s10, "skinCluster1", "skinCluster", 0)
    IN  AddNode(s11, "unitConversion1", "unitConversion", 0)

UnknownShortNames == {"", "bogus", "Mesh", "kMesh", "transforms"}

RawTypeIds == {"kMesh", "kTransform", "kDagNode", "kWire"}

HasFnInputs ==
    {[item_name |-> item, shape_type |-> type] :
        item \in {PyStr(n) : n \in NodeNames(TypeScene) \cup {"missing"}}
                 \cup {MObject(i) : i \in NodeIds(TypeScene)},
        type \in {PyStr(t) : t \in DOMAIN node_types \cup UnknownShortNames}
                 \cup {PyInt(fn) : fn \in RawTypeIds} \cup {PyNone}}

InitHasFn ==
    /\ scene = TypeScene
    /\ module = NoModule
    /\ calls = <<>>
    /\ input \in HasFnInputs

HasFn ==
    /\ calls = <<>>
    /\ LET out == has_fn(scene, input.item_name, input.shape_type)
       IN  calls' = <<[op |-> "has_fn", item_name |-> input.item_name,
                       shape_type |-> input.shape_type,
                       raised |-> out.raised, ret |-> out.ret]>>
    /\ UNCHANGED <<scene, module, input>>

NextHasFn == HasFn

SpecHasFn == InitHasFn /\ [][NextHasFn]_vars

\* the node an item names or holds, 0 when the name matches none
ItemNode(sc, item) ==
    IF item.kind = "MObject" THEN item.id
    ELSE IF cmds_objExists(sc, item.str) THEN NodeId(sc, item.str) ELSE 0

\* C8: for every short name of the node-type table, has_fn(node, short_name)
\* returns True when the node has that type and False when it has not; for a
\* string that is no key of the table it returns False and does not raise.
C8_HasFnByShortName ==
    \A i \in 1..Len(calls) :
        LET c == calls[i]
            node == ItemNode(scene, c.item_name)
        IN  (c.op = "has_fn" /\ node # 0 /\ c.shape_type.kind = "str")
            => /\ c.raised = ""
               /\ c.shape_type.str \in DOMAIN node_types =>
                    c.ret = PyBool(node_types[c.shape_type.str]
                                   \in HostFnSets[scene.nodes[node].type])
               /\ c.shape_type.str \notin DOMAIN node_types => c.ret = PyBool(FALSE)

\* has_fn has answered False for a name that is not in the table
C8_Witness ==
    /\ calls # <<>>
    /\ calls[1].op = "has_fn"
    /\ calls[1].shape_type = PyStr("bogus")
    /\ calls[1].item_name = PyStr("jnt")
    /\ calls[1].raised = ""
    /\ calls[1].ret = PyBool(FALSE)

(***************************************************************************)
(* create_node, and SpecNode: create_node called again and again with a    *)
(* type and a name, in an empty scene or in one that holds a node foo.     *)
(***************************************************************************)
\* create_node without its existence check
create_node_unguarded(sc, node_type, node_name) ==
    cmds_createNode(sc, node_type, node_name)

\* create_node(node_type, node_name)
create_node(sc, node_type, node_name) ==
    IF ~cmds_objExists(sc, node_name)
    THEN cmds_createNode(sc, node_type, node_name)
    ELSE Returned(sc, node_name)

MaxNodeCalls == 3

NodeTypeInputs == {"transform", "locator", "notAType"}

NodeNameInputs == {"", "foo", "barShape"}

InitNode ==
    /\ scene \in {EmptyScene, AddNode(EmptyScene, "foo", "joint", 0)}
    /\ module = NoModule
    /\ calls = <<>>
    /\ input = NoInput

CreateNode ==
    \E node_type \in NodeTypeInputs, node_name \in NodeNameInputs :
        /\ Len(calls) < MaxNodeCalls
        /\ LET out == create_node(scene, node_type, node_name)
           IN  /\ scene' = out.scene
               /\ calls' = Append(calls, [op |-> "create_node",
                                          node_type |-> node_type,
                                          node_name |-> node_name,
                                          raised |-> out.raised,
                                          ret |-> out.ret,
                                          nodes_after |-> out.scene.nodes])
        /\ UNCHANGED <<module, input>>

NextNode == CreateNode

SpecNode == InitNode /\ [][NextNode]_vars

\* two calls in a row with the same arguments
SameNodeCall(i) ==
    /\ calls[i].node_type = calls[i + 1].node_type
    /\ calls[i].node_name = calls[i + 1].node_name

\* C5: create_node is idempotent: for a node type and a non-empty node name,
\* two calls in a row return the same node name, and the scene after the second
\* holds exactly the nodes it held after the first.
C5_CreateNodeIdempotent ==
    \A i \in 1..(Len(calls) - 1) :
        (SameNodeCall(i) /\ calls[i].node_name # "" /\ calls[i].raised = "")
        => /\ calls[i + 1].raised = ""
           /\ calls[i + 1].ret = calls[i].ret
           /\ calls[i].ret = calls[i].node_name
           /\ calls[i + 1].nodes_after = calls[i].nodes_after

\* the first call made the node and the second, the same call, has returned
C5_Witness ==
    /\ Len(calls) >= 2
    /\ SameNodeCall(1)
    /\ calls[1].node_name = "barShape"
    /\ calls[1].raised = ""
    /\ Cardinality(DOMAIN calls[1].nodes_after) = 2
    /\ calls[2].ret = "barShape"

(***************************************************************************)
(* Attribute connections, and SpecConn: connect_attr and attr_connect      *)
(* called with pairs of plugs, in a scene of three transforms where the    *)
(* destination may already be driven by another plug.                      *)
(***************************************************************************)
\* the plug an attribute name 'node.attr' names
PlugOf(sc, attribute) ==
    LET parts == StrPartition(attribute, ".")
    IN  <<NodeId(sc, parts[1]), parts[3]>>

\* whether 'node.attr' names an attribute of a node of the scene
PlugExists(sc, attribute) ==
    LET parts == StrPartition(attribute, ".")
    IN  /\ cmds_objExists(sc, parts[1])
        /\ parts[3] \in DOMAIN sc.nodes[NodeId(sc, parts[1])].attrs

\* cmds.isConnected(src, dst)
cmds_isConnected(sc, src, dst) ==
    IF ~PlugExists(sc, src) \/ ~PlugExists(sc, dst) THEN Raised(sc, "ValueError")
    ELSE Returned(sc, <<PlugOf(sc, src), PlugOf(sc, dst)>> \in sc.conns)

\* cmds.connectAttr(src, dst): the host refuses a destination that is locked or
\* already has an incoming connection
cmds_connectAttr(sc, src, dst) ==
    IF ~PlugExists(sc, src) \/ ~PlugExists(sc, dst) THEN Raised(sc, "RuntimeError")
    ELSE LET d == PlugOf(sc, dst)
         IN  IF \/ \E c \in sc.conns : c[2] = d
                \/ d[2] \in sc.nodes[d[1]].locked
             THEN Raised(sc, "RuntimeError")
             ELSE Returned([sc EXCEPT !.conns = @ \cup {<<PlugOf(sc, src), d>>},
                                      !.modified = TRUE], "")

\* connect_attr with its test turned around
connect_attr_inverted(sc, src_attribute, dst_attribute) ==
    LET connected == cmds_isConnected(sc, src_attribute, dst_attribute)
    IN  IF connected.raised # "" THEN connected
        ELSE IF connected.ret
        THEN LET made == cmds_connectAttr(sc, src_attribute, dst_attribute)
             IN  IF made.raised # "" THEN made ELSE Returned(made.scene, TRUE)
        ELSE Returned(sc, TRUE)

\* connect_attr(src_attribute, dst_attribute)
connect_attr(sc, src_attribute, dst_attribute) ==
    LET connected == cmds_isConnected(sc, src_attribute, dst_attribute)
    IN  IF connected.raised # "" THEN connected
        ELSE IF ~connected.ret
        THEN LET made == cmds_connectAttr(sc, src_attribute, dst_attribute)
             IN  IF made.raised # "" THEN made ELSE Returned(made.scene, TRUE)
        ELSE Returned(sc, TRUE)

\* attr_connect(attr_src, attr_trg)
attr_connect(sc, attr_src, attr_trg) ==
    LET connected == cmds_isConnected(sc, attr_src, attr_trg)
    IN  IF connected.raised # "" THEN connected
        ELSE IF ~connected.ret
        THEN LET made == cmds_connectAttr(sc, attr_src, attr_trg)
             IN  IF made.raised # "" THEN made ELSE Returned(made.scene, TRUE)
        ELSE Returned(sc, TRUE)

\* get_plug(object_name, attr_str).isConnected(): the plug is an end of a connection
is_attr_connected(sc, object_node, attr_str) ==
    LET plug == <<NodeId(sc, object_node), attr_str>>
    IN  \E c \in sc.conns : c[1] = plug \/ c[2] = plug

MaxConnCalls == 3

ConnScene ==
    AddNode(AddNode(AddNode(EmptyScene, "a", "transform", 0),
                    "b", "transform", 0), "c", "transform", 0)

\* the attribute names the calls are made with: two attributes and the
\* attribute of a node that is not in the scene
AttributeInputs == {"a.translateX", "b.translateX", "nowhere.translateX"}

InitConn ==
    /\ scene \in {ConnScene,
                  [ConnScene EXCEPT !.conns = {<<<<3, "translateX">>, <<2, "translateX">>>>}]}
    /\ module = NoModule
    /\ calls = <<>>
    /\ input = NoInput

ConnCalled(op, src, dst, out) ==
    /\ Len(calls) < MaxConnCalls
    /\ src # dst
    /\ scene' = out.scene
    /\ calls' = Append(calls, [op |-> op, src |-> src, dst |-> dst,
                               raised |-> out.raised, ret |-> out.ret,
                               conns_after |-> out.scene.conns])
    /\ UNCHANGED <<module, input>>

ConnectAttr ==
    \E src \in AttributeInputs, dst \in AttributeInputs :
        ConnCalled("connect_attr", src, dst, connect_attr(scene, src, dst))

AttrConnect ==
    \E src \in AttributeInputs, dst \in AttributeInputs :
        ConnCalled("attr_connect", src, dst, attr_connect(scene, src, dst))

NextConn ==
    \/ ConnectAttr
    \/ AttrConnect

SpecConn == InitConn /\ [][NextConn]_vars

\* two calls in a row, of either function, with the same source and destination
SameConnCall(i) ==
    /\ calls[i].src = calls[i + 1].src
    /\ calls[i].dst = calls[i + 1].dst

\* C6: attr_connect and connect_attr are idempotent: two calls in a row, of
\* either, with the same source and destination both return True and leave
\* exactly one connection between the pair, and the destination attribute is
\* reported as connected.
C6_ConnectIdempotent ==
    \A i \in 1..(Len(calls) - 1) :
        (SameConnCall(i) /\ calls[i].raised = "")
        => LET src == calls[i].src
               dst == calls[i].dst
               after == [scene EXCEPT !.conns = calls[i + 1].conns_after]
               parts == StrPartition(dst, ".")
           IN  /\ calls[i].ret = TRUE
               /\ calls[i + 1].raised = ""
               /\ calls[i + 1].ret = TRUE
               /\ Cardinality({c \in after.conns :
                                 c = <<PlugOf(after, src), PlugOf(after, dst)>>}) = 1
               /\ calls[i + 1].conns_after = calls[i].conns_after
               /\ is_attr_connected(after, parts[1], parts[3])

\* connect_attr made the connection and attr_connect, called next on the same
\* pair, has returned
C6_Witness ==
    /\ Len(calls) >= 2
    /\ SameConnCall(1)
    /\ calls[1].op = "connect_attr"
    /\ calls[2].op = "attr_connect"
    /\ calls[1].raised = ""
    /\ calls[2].raised = ""
    /\ calls[1].conns_after # {}
    /\ Cardinality(scene.conns) = 1

(***************************************************************************)
(* Hierarchy traversal: get_m_parent, get_m_child, get_transform_relatives.*)
(***************************************************************************)
\* a set of node identities as a sequence, in the host's order (of creation)
RECURSIVE InSceneOrder(_)
InSceneOrder(ids) ==
    IF ids = {} THEN <<>>
    ELSE LET first == CHOOSE i \in ids : \A j \in ids : i <= j
         IN  <<first>> \o InSceneOrder(ids \ {first})

\* MFnDagNode.child(0 .. childCount - 1)
ChildrenOf(sc, id) == InSceneOrder({i \in NodeIds(sc) : sc.nodes[i].parent = id})

\* MDagPath.fullPathName().split('|'): the empty string, then the names from
\* the top ancestor down to the node
RECURSIVE FullPathNames(_, _)
FullPathNames(sc, id) ==
    IF id = 0 THEN <<"">>
    ELSE Append(FullPathNames(sc, sc.nodes[id].parent), sc.nodes[id].name)

\* get_m_object_name(m_object): the world is the parent of a top node
get_m_object_name(sc, m_object) ==
    IF m_object.id = 0 THEN "world" ELSE sc.nodes[m_object.id].name

\* get_m_parent(m_object, find_parent, with_shape, as_strings)
get_m_parent(sc, m_object, find_parent, with_shape, as_strings) ==
    IF find_parent.kind = "str"
    THEN LET p_node_ls == FullPathNames(sc, m_object.id)
             found == SelectSeq(p_node_ls,
                                LAMBDA x : StrIn(find_parent.str, StrRPartition(x, ":")[3]))
         IN  IF found # <<>> THEN <<found>> ELSE <<>>
    ELSE IF find_parent.kind \in {"int", "bool"}
    THEN IF as_strings
         THEN <<get_m_object_name(sc, MObject(sc.nodes[m_object.id].parent))>>
         ELSE <<MObject(sc.nodes[m_object.id].parent)>>
    ELSE <<>>

\* MItDag(kBreadthFirst) from a node: the node, then its descendants by level
RECURSIVE BreadthFirst(_, _)
BreadthFirst(sc, level) ==
    IF level = <<>> THEN <<>>
    ELSE LET RECURSIVE Below(_)
             Below(k) == IF k > Len(level) THEN <<>>
                         ELSE ChildrenOf(sc, level[k]) \o Below(k + 1)
         IN  level \o BreadthFirst(sc, Below(1))

\* what one node of the iteration adds to the result of get_m_child
ChildItems(sc, id, find_child, with_shape, transform, as_strings) ==
    LET ch_item == IF as_strings THEN sc.nodes[id].name ELSE MObject(id)
        kept == IF transform
                THEN IF MObject_hasFn(sc, MObject(id), node_types["transform"])
                     THEN <<ch_item>> ELSE <<>>
                ELSE <<ch_item>>
    IN  IF find_child.kind = "str" /\ StrIn(find_child.str, sc.nodes[id].name)
        THEN IF with_shape # ""
             THEN LET shaped == SelectSeq(ChildrenOf(sc, id),
                                  LAMBDA c : MObject_hasFn(sc, MObject(c), node_types[with_shape]))
                  IN  [k \in 1..Len(shaped) |-> ch_item]
             ELSE kept
        ELSE kept

\* get_m_child(m_object, find_child, with_shape, transform, as_strings)
get_m_child(sc, m_object, find_child, with_shape, transform, as_strings) ==
    IF ChildrenOf(sc, m_object.id) = <<>> THEN <<>>
    ELSE LET order == BreadthFirst(sc, <<m_object.id>>)
             RECURSIVE Collect(_)
             Collect(k) ==
                IF k > Len(order) THEN <<>>
                ELSE ChildItems(sc, order[k], find_child, with_shape, transform, as_strings)
                     \o Collect(k + 1)
         IN  Collect(1)

\* get_transform_relatives from the resolution of object_name on
RelativesOfNode(sc, object_name, find_parent, find_child, with_shape, as_strings) ==
    LET m_object == get_m_obj(sc, PyStr(object_name))
    IN  IF m_object.raised # "" THEN m_object
        ELSE IF ~Truthy(HasFnOfHandle(sc, m_object.ret, PyStr("dag")).ret)
        THEN Answer("", <<>>, m_object.resolved)
        ELSE IF Truthy(find_parent)
        THEN Answer("", get_m_parent(sc, m_object.ret, find_parent, with_shape, as_strings),
                    m_object.resolved)
        ELSE IF Truthy(find_child)
        THEN Answer("", get_m_child(sc, m_object.ret, find_child, with_shape, TRUE, as_strings),
                    m_object.resolved)
        ELSE Answer("", <<>>, m_object.resolved)

\* get_transform_relatives with the node resolved before the parameters are checked
get_transform_relatives_late(sc, object_name, find_parent, find_child, with_shape, as_strings) ==
    LET m_object == get_m_obj(sc, PyStr(object_name))
    IN  IF m_object.raised # "" THEN m_object
        ELSE IF object_name = "" THEN Answer("ValueError", <<>>, m_object.resolved)
        ELSE IF ~Truthy(find_parent) /\ ~Truthy(find_child)
        THEN Answer("ValueError", <<>>, m_object.resolved)
        ELSE RelativesOfNode(sc, object_name, find_parent, find_child, with_shape, as_strings)

\* get_transform_relatives(object_name, find_parent, find_child, with_shape, as_strings)
get_transform_relatives(sc, object_name, find_parent, find_child, with_shape, as_strings) ==
    IF object_name = "" THEN Answer("ValueError", <<>>, <<>>)
    ELSE IF ~Truthy(find_parent) /\ ~Truthy(find_child)
    THEN Answer("ValueError", <<>>, <<>>)
    ELSE RelativesOfNode(sc, object_name, find_parent, find_child, with_shape, as_strings)

(***************************************************************************)
(* SpecRel: get_transform_relatives asked about a controller under its     *)
(* group, with every combination of its parameters.                        *)
(***************************************************************************)
\* grp > ctrl > (ctrlShape, sub), and a set outside the DAG
RelScene ==
    LET s1 == AddNode(EmptyScene, "grp", "transform", 0)
        s2 == AddNode(s1, "ctrl", "transform", 1)
        s3 == AddNode(s2, "ctrlShape", "nurbsCurve", 2)
        s4 == AddNode(s3, "sub", "transform", 2)
    IN  AddNode(s4, "set1", "objectSet", 0)

RelInputs ==
    [object_name : {"", "grp", "ctrl", "sub", "set1", "missing"},
     find_parent : {PyStr(""), PyBool(TRUE), PyBool(FALSE), PyStr("grp")},
     find_child : {PyBool(FALSE), PyBool(TRUE), PyStr("ctrl")},
     with_shape : {"", "nurbsCurve"},
     as_strings : BOOLEAN]

InitRel ==
    /\ scene = RelScene
    /\ module = NoModule
    /\ calls = <<>>
    /\ input \in RelInputs

GetTransformRelatives ==
    /\ calls = <<>>
    /\ LET out == get_transform_relatives(scene, input.object_name, input.find_parent,
                      input.find_child, input.with_shape, input.as_strings)
       IN  calls' = <<[op |-> "get_transform_relatives", args |-> input,
                       raised |-> out.raised, ret |-> out.ret,
                       resolved |-> out.resolved]>>
    /\ UNCHANGED <<scene, module, input>>

NextRel == GetTransformRelatives

SpecRel == InitRel /\ [][NextRel]_vars

\* C7: get_transform_relatives raises ValueError when object_name is empty, and
\* when neither find_parent nor find_child is set, in both cases before it
\* resolves any scene node.
C7_RelativesValidates ==
    \A i \in 1..Len(calls) :
        LET c == calls[i]
        IN  (\/ c.args.object_name = ""
             \/ ~Truthy(c.args.find_parent) /\ ~Truthy(c.args.find_child))
            => /\ c.raised = "ValueError"
               /\ c.resolved = <<>>

\* the call named a node of the scene, set neither flag, and was refused
C7_Witness ==
    /\ calls # <<>>
    /\ calls[1].args.object_name = "ctrl"
    /\ calls[1].args.find_parent = PyStr("")
    /\ calls[1].args.find_child = PyBool(FALSE)
    /\ calls[1].raised = "ValueError"

(***************************************************************************)
(* control_utils: discovery and zeroing of the controllers.                *)
(***************************************************************************)
\* whether a name matches a pattern of the host's ls, where * stands for any
\* run of characters
RECURSIVE GlobMatch(_, _)
GlobMatch(pattern, name) ==
    IF pattern = "" THEN name = ""
    ELSE IF SubSeq(pattern, 1, 1) = "*"
    THEN \/ GlobMatch(SubSeq(pattern, 2, Len(pattern)), name)
         \/ name # "" /\ GlobMatch(pattern, SubSeq(name, 2, Len(name)))
    ELSE /\ name # ""
         /\ SubSeq(name, 1, 1) = SubSeq(pattern, 1, 1)
         /\ GlobMatch(SubSeq(pattern, 2, Len(pattern)), SubSeq(name, 2, Len(name)))

\* cmds.ls(pattern, sl=1): the names that match among the selected nodes
cmds_ls_selected(sc, pattern) ==
    LET order == InSceneOrder({i \in NodeIds(sc) :
                                 /\ GlobMatch(pattern, sc.nodes[i].name)
                                 /\ \E k \in 1..Len(sc.selection) : sc.selection[k] = i})
    IN  [k \in 1..Len(order) |-> sc.nodes[order[k]].name]

\* cmds.ls(pattern): the names of the nodes that match, in scene order
cmds_ls(sc, pattern) ==
    LET order == InSceneOrder({i \in NodeIds(sc) : GlobMatch(pattern, sc.nodes[i].name)})
    IN  [k \in 1..Len(order) |-> sc.nodes[order[k]].name]

\* get_controllers matching the suffix anywhere in the name
get_controllers_anywhere(sc) == cmds_ls(sc, "*_" \o CTRL_SUFFIX \o "*")

\* get_controllers()
get_controllers(sc) == cmds_ls(sc, "*_" \o CTRL_SUFFIX)

\* attr_str(ctrl_name, attr_name)
attr_str(ctrl_name, attr_name) == ctrl_name \o "." \o attr_name

\* transform_attrs.items(): the order is the dictionary's, and shows only in
\* what a call that raises has already set
transform_attrs_items ==
    <<<<"translateX", DEFAULT_ATTR_VALUES.translateX>>,
      <<"translateY", DEFAULT_ATTR_VALUES.translateY>>,
      <<"translateZ", DEFAULT_ATTR_VALUES.translateZ>>,
      <<"rotateX", DEFAULT_ATTR_VALUES.rotateX>>,
      <<"rotateY", DEFAULT_ATTR_VALUES.rotateY>>,
      <<"rotateZ", DEFAULT_ATTR_VALUES.rotateZ>>,
      <<"scaleX", DEFAULT_ATTR_VALUES.scaleX>>,
      <<"scaleY", DEFAULT_ATTR_VALUES.scaleY>>,
      <<"scaleZ", DEFAULT_ATTR_VALUES.scaleZ>>>>

\* cmds.setAttr(attribute, value): the host refuses an attribute the node has
\* not, a locked one and one driven by a connection
cmds_setAttr(sc, attribute, value) ==
    IF ~PlugExists(sc, attribute) THEN Raised(sc, "RuntimeError")
    ELSE LET plug == PlugOf(sc, attribute)
         IN  IF \/ plug[2] \in sc.nodes[plug[1]].locked
                \/ \E c \in sc.conns : c[2] = plug
             THEN Raised(sc, "RuntimeError")
             ELSE Returned([sc EXCEPT !.nodes[plug[1]].attrs[plug[2]] = value,
                                      !.modified = TRUE], "")

\* the inner loop of zero_controllers, from the k-th attribute on
RECURSIVE ZeroAttributes(_, _, _)
ZeroAttributes(sc, ctrl_name, k) ==
    IF k > Len(transform_attrs_items) THEN Returned(sc, "")
    ELSE LET ctrl_attribute == attr_str(ctrl_name, transform_attrs_items[k][1])
             set == cmds_setAttr(sc, ctrl_attribute, transform_attrs_items[k][2])
         IN  IF set.raised # "" THEN set ELSE ZeroAttributes(set.scene, ctrl_name, k + 1)

\* the outer loop of zero_controllers, from the k-th controller on
RECURSIVE ZeroEach(_, _, _)
ZeroEach(sc, ctrl_names, k) ==
    IF k > Len(ctrl_names) THEN Returned(sc, TRUE)
    ELSE LET zeroed == ZeroAttributes(sc, ctrl_names[k], 1)
         IN  IF zeroed.raised # "" THEN zeroed ELSE ZeroEach(zeroed.scene, ctrl_names, k + 1)

\* zero_controllers()
zero_controllers(sc) == ZeroEach(sc, get_controllers(sc), 1)

(***************************************************************************)
(* SpecZero: zero_controllers in a scene of posed nodes: a controller      *)
(* under its group and over its shape, a joint named as a controller, and  *)
(* may be a set named as one; may be one attribute is locked.              *)
(***************************************************************************)
MaxAttrValue == 2

\* every transform channel at the value v
Posed(node, v) ==
    [node EXCEPT !.attrs = [a \in DOMAIN DEFAULT_ATTR_VALUES |-> v]]

ZeroScene(grp_v, arm_v, leg_v, with_set) ==
    LET s1 == AddNode(EmptyScene, "arm_ctrl_grp", "transform", 0)
        s2 == AddNode(s1, "arm_ctrl", "transform", 1)
        s3 == AddNode(s2, "arm_ctrlShape", "nurbsCurve", 2)
        s4 == AddNode(s3, "leg_ctrl", "joint", 0)
        s5 == IF with_set THEN AddNode(s4, "set_ctrl", "objectSet", 0) ELSE s4
    IN  [s5 EXCEPT !.nodes[1] = Posed(@, grp_v),
                   !.nodes[2] = Posed(@, arm_v),
                   !.nodes[4] = Posed(@, leg_v)]

InitZero ==
    /\ \E grp_v \in 0..MaxAttrValue, arm_v \in 0..MaxAttrValue,
          leg_v \in 0..MaxAttrValue, with_set \in BOOLEAN :
        \E lock \in {<<0, "">>, <<1, "translateX">>, <<2, "rotateY">>, <<4, "scaleZ">>} :
            LET posed == ZeroScene(grp_v, arm_v, leg_v, with_set)
            IN  scene = IF lock[1] = 0 THEN posed
                        ELSE [posed EXCEPT !.nodes[lock[1]].locked = {lock[2]}]
    /\ module = NoModule
    /\ calls = <<>>
    /\ input = NoInput

ZeroControllers ==
    /\ calls = <<>>
    /\ LET out == zero_controllers(scene)
       IN  /\ scene' = out.scene
           /\ calls' = <<[op |-> "zero_controllers", raised |-> out.raised,
                          nodes_before |-> scene.nodes]>>
    /\ UNCHANGED <<module, input>>

NextZero == ZeroControllers

SpecZero == InitZero /\ [][NextZero]_vars

\* C9: after zero_controllers() returns, every node whose name ends in _ctrl
\* has each attribute of the default table at the table's value (translate 0,
\* rotate 0, scale 1), and no attribute of a node whose name does not end in
\* _ctrl has changed.
C9_ZeroControllers ==
    \A k \in 1..Len(calls) :
        calls[k].op = "zero_controllers"
        => /\ calls[k].raised = "" =>
                \A i \in NodeIds(scene) :
                    StrEndsWith(scene.nodes[i].name, "_ctrl") =>
                        \A a \in DOMAIN DEFAULT_ATTR_VALUES :
                            /\ a \in DOMAIN scene.nodes[i].attrs
                            /\ scene.nodes[i].attrs[a] = DEFAULT_ATTR_VALUES[a]
           /\ \A i \in NodeIds(scene) :
                ~StrEndsWith(scene.nodes[i].name, "_ctrl") =>
                    scene.nodes[i] = calls[k].nodes_before[i]

\* zero_controllers has returned in a scene whose controllers and whose group
\* were posed: the controllers are zeroed and the group keeps its pose
C9_Witness ==
    /\ calls # <<>>
    /\ calls[1].op = "zero_controllers"
    /\ calls[1].raised = ""
    /\ calls[1].nodes_before[2].attrs.scaleX = 2
    /\ calls[1].nodes_before[4].attrs.translateX = 2
    /\ scene.nodes[2].attrs.scaleX = 1
    /\ scene.nodes[1].attrs.translateX = 2

(***************************************************************************)
(* SpecSuffix: the suffix helpers applied to a name.  The name is either   *)
(* a base over the letters of the suffix and one other letter, or that     *)
(* base with the controller suffix appended.                               *)
(***************************************************************************)
SuffixAlphabet == {"_", "c", "t", "r", "l", "a"}

SuffixInputs ==
    {[base |-> b,
      object_name |-> IF suffixed THEN b \o SuffixName(CTRL_SUFFIX) ELSE b] :
        b \in StringsUpTo(SuffixAlphabet, MaxBaseLen), suffixed \in BOOLEAN}

InitSuffix ==
    /\ scene = NoScene
    /\ module = NoModule
    /\ calls = <<>>
    /\ input \in SuffixInputs

CheckControlSuffixName ==
    /\ ~Called("check_control_suffix_name")
    /\ calls' = Append(calls, [op |-> "check_control_suffix_name",
                               object_name |-> input.object_name,
                               ret |-> check_control_suffix_name(input.object_name)])
    /\ UNCHANGED <<scene, module, input>>

RemoveControlSuffixName ==
    /\ ~Called("remove_control_suffix_name")
    /\ calls' = Append(calls, [op |-> "remove_control_suffix_name",
                               object_name |-> input.object_name,
                               ret |-> remove_control_suffix_name(input.object_name)])
    /\ UNCHANGED <<scene, module, input>>

NextSuffix ==
    \/ CheckControlSuffixName
    \/ RemoveControlSuffixName

SpecSuffix == InitSuffix /\ [][NextSuffix]_vars

\* C10: for every base (one containing _ctrl and the empty one included),
\* check_control_suffix_name(base + "_ctrl") returns True and
\* remove_control_suffix_name(base + "_ctrl") returns exactly base.
C10_SuffixConsistent ==
    \A i \in 1..Len(calls) :
        calls[i].object_name = input.base \o "_ctrl" =>
            /\ calls[i].op = "check_control_suffix_name" => calls[i].ret = TRUE
            /\ calls[i].op = "remove_control_suffix_name" => calls[i].ret = input.base

\* both helpers have run on a name built from a base that itself holds _ctrl
C10_Witness ==
    /\ input.object_name = input.base \o "_ctrl"
    /\ StrIn("_ctrl", input.base)
    /\ Called("check_control_suffix_name")
    /\ Called("remove_control_suffix_name")
    /\ CallOf("remove_control_suffix_name").ret = input.base

(***************************************************************************)
(* object_utils: the selection helpers.                                    *)
(***************************************************************************)
\* cmds.selectPref(trackSelectionOrder=1, q=1)
cmds_selectPref_query(sc) == sc.trackSelectionOrder

\* cmds.selectPref(trackSelectionOrder=value)
cmds_selectPref(sc, value) == [sc EXCEPT !.trackSelectionOrder = value]

\* cmds.ls(os=1, fl=1): the selected names in the order of selection; when the
\* order is not tracked the host answers as ls(sl=1) does, in scene order
cmds_ls_os(sc) ==
    LET order == IF sc.trackSelectionOrder THEN sc.selection
                 ELSE InSceneOrder({sc.selection[k] : k \in 1..Len(sc.selection)})
    IN  [k \in 1..Len(order) |-> sc.nodes[order[k]].name]

\* the end of the wrapper of selection_order, leaving the preference as the
\* wrapper set it
selection_order_keep(sc, set_pref, select_pref) == sc

\* the end of the wrapper of selection_order (lines 113-115)
selection_order_restore(sc, set_pref, select_pref) ==
    IF set_pref THEN cmds_selectPref(sc, select_pref) ELSE sc

\* the body of get_selected_node(single)
GetSelectedNodeBody(sc, single) ==
    LET listed == cmds_ls_os(sc)
    IN  IF single
        THEN IF listed = <<>> THEN "" ELSE listed[1]
        ELSE listed

\* get_selected_node(single) under its decorator selection_order; tracked is
\* the preference as the body found it
get_selected_node(sc, single) ==
    LET select_pref == cmds_selectPref_query(sc)
        set_pref == ~select_pref
        entered == IF set_pref THEN cmds_selectPref(sc, TRUE) ELSE sc
        answer == GetSelectedNodeBody(entered, single)
    IN  [scene |-> selection_order_restore(entered, set_pref, select_pref),
         raised |-> "", ret |-> answer, tracked |-> entered.trackSelectionOrder]

(***************************************************************************)
(* SpecSel: get_selected_node called, in either mode, in a scene of three  *)
(* nodes with any selection and either value of the preference.            *)
(***************************************************************************)
MaxSelCalls == 2

\* the sequences without repetition over a set of node identities
RECURSIVE Selections(_)
Selections(ids) ==
    {<<>>} \cup UNION {{<<i>> \o rest : rest \in Selections(ids \ {i})} : i \in ids}

SelScene ==
    LET s1 == AddNode(EmptyScene, "arm_ctrl", "transform", 0)
        s2 == AddNode(s1, "arm_ctrlShape", "nurbsCurve", 1)
    IN  AddNode(s2, "leg_jnt", "joint", 0)

InitSel ==
    /\ \E picked \in Selections(NodeIds(SelScene)), pref \in BOOLEAN :
        scene = cmds_selectPref(Selected(SelScene, picked), pref)
    /\ module = NoModule
    /\ calls = <<>>
    /\ input = NoInput

GetSelectedNode ==
    /\ Len(calls) < MaxSelCalls
    /\ \E single \in BOOLEAN :
        LET out == get_selected_node(scene, single)
        IN  /\ scene' = out.scene
            /\ calls' = Append(calls, [op |-> "get_selected_node", single |-> single,
                                       ret |-> out.ret, tracked |-> out.tracked,
                                       pref_before |-> scene.trackSelectionOrder,
                                       pref_after |-> out.scene.trackSelectionOrder,
                                       selection |-> scene.selection])
    /\ UNCHANGED <<module, input>>

NextSel == GetSelectedNode

SpecSel == InitSel /\ [][NextSel]_vars

\* C16: every call of get_selected_node leaves the track-selection-order
\* preference at the value it had before the call, and the selection query
\* inside it runs with the preference enabled.
C16_PreferenceRestored ==
    \A i \in 1..Len(calls) :
        /\ calls[i].pref_after = calls[i].pref_before
        /\ calls[i].tracked = TRUE

\* a call made with the preference off and two nodes selected, the later
\* created first: it answered the first selected and the preference is off
C16_Witness ==
    /\ calls # <<>>
    /\ calls[1].single
    /\ calls[1].pref_before = FALSE
    /\ calls[1].selection = <<3, 1>>
    /\ calls[1].ret = "leg_jnt"
    /\ scene.trackSelectionOrder = FALSE

(***************************************************************************)
(* SpecCtrl: get_controllers in scenes made of any of five nodes, of       *)
(* different types and with the suffix at the end of the name, inside it   *)
(* or not at all, with any selection and either value of the preference.   *)
(***************************************************************************)
CtrlPool ==
    <<<<"arm_ctrl", "transform">>, <<"arm_ctrl_grp", "transform">>,
      <<"leg_ctrl", "joint">>, <<"set_ctrl", "objectSet">>, <<"ctrl", "locator">>>>

\* the scene that holds the nodes of the pool a mask keeps
RECURSIVE CtrlScene(_, _)
CtrlScene(mask, k) ==
    IF k = 0 THEN EmptyScene
    ELSE LET below == CtrlScene(mask, k - 1)
         IN  IF mask[k] THEN AddNode(below, CtrlPool[k][1], CtrlPool[k][2], 0) ELSE below

InitCtrl ==
    /\ \E mask \in [1..Len(CtrlPool) -> BOOLEAN], pref \in BOOLEAN :
        LET made == CtrlScene(mask, Len(CtrlPool))
        IN  \E picked \in {s \in Selections(NodeIds(made)) : Len(s) <= 2} :
                scene = cmds_selectPref(Selected(made, picked), pref)
    /\ module = NoModule
    /\ calls = <<>>
    /\ input = NoInput

GetControllers ==
    /\ calls = <<>>
    /\ calls' = <<[op |-> "get_controllers", ret |-> get_controllers(scene),
                   scene_before |-> scene]>>
    /\ UNCHANGED <<scene, module, input>>

NextCtrl == GetControllers

SpecCtrl == InitCtrl /\ [][NextCtrl]_vars

\* C11: get_controllers() returns exactly the names of the scene's nodes that
\* end in _ctrl, each once, whatever the nodes' types, the selection and the
\* track-selection-order preference, and leaves the selection and the scene as
\* they were.
C11_ControllersListed ==
    \A i \in 1..Len(calls) :
        LET ret == calls[i].ret
            before == calls[i].scene_before
        IN  /\ {ret[k] : k \in 1..Len(ret)} =
                   {before.nodes[n].name : n \in {m \in NodeIds(before) :
                        StrEndsWith(before.nodes[m].name, "_ctrl")}}
            /\ \A j, k \in 1..Len(ret) : ret[j] = ret[k] => j = k
            /\ scene = before

\* three nodes of different types end in _ctrl, none of them selected, a fourth
\* holds the suffix inside its name and is selected: the three are listed
C11_Witness ==
    /\ calls # <<>>
    /\ Cardinality(NodeIds(scene)) = 5
    /\ scene.selection = <<2>>
    /\ calls[1].ret = <<"arm_ctrl", "leg_ctrl", "set_ctrl">>

(***************************************************************************)
(* Offset groups: object_utils.insert_transform and                        *)
(* control_utils.insert_groups.                                            *)
(***************************************************************************)
\* an outcome with another value returned, when it did not raise
Answered(out, ret) == IF out.raised # "" THEN out ELSE Returned(out.scene, ret)

\* insert_transform without lines 1467-1470: the group stays under the world
ParentGroupNowhere(i_name, grp, p_object, under) == Answered(under, PyStr(i_name))

\* insert_transform, lines 1467-1470: the group goes under the parent the
\* object had, unless that is the world
ParentGroup(i_name, grp, p_object, under) ==
    IF under.raised # "" THEN under
    ELSE IF p_object = <<>> THEN Returned(under.scene, PyStr(i_name))
    ELSE IF get_m_object_name(under.scene, p_object[1]) = "world"
    THEN Returned(under.scene, PyStr(i_name))
    ELSE Answered(cmds_parent(under.scene, grp, get_m_object_name(under.scene, p_object[1])),
                  PyStr(i_name))

\* insert_transform, line 1466: the object goes under the group
PlaceGroup(sel_obj, i_name, grp, p_object, placed) ==
    IF p_object.raised # "" THEN Raised(placed.scene, p_object.raised)
    ELSE IF placed.raised # "" THEN placed
    ELSE ParentGroup(i_name, grp, p_object.ret, cmds_parent(placed.scene, sel_obj, grp))

\* insert_transform, lines 1464-1465: the parent of the object is looked up and
\* the group is given the matrix of the object
InsertGroup(sel_obj, i_name, mat, grp) ==
    PlaceGroup(sel_obj, i_name, grp.ret,
               get_transform_relatives(grp.scene, sel_obj, PyBool(TRUE), PyBool(FALSE),
                                       "", FALSE),
               cmds_xform(grp.scene, grp.ret, "m", mat, FALSE))

\* insert_transform without the test of line 1462: a group is always made
InsertWithMatrixUnguarded(sc, sel_obj, i_name, mat) ==
    IF mat.raised # "" THEN mat
    ELSE InsertGroup(sel_obj, i_name, mat.ret, cmds_group(sc, i_name))

\* insert_transform, lines 1462-1463: a group is made unless the name is taken
InsertWithMatrix(sc, sel_obj, i_name, mat) ==
    IF mat.raised # "" THEN mat
    ELSE IF cmds_ls(sc, i_name) # <<>> THEN Returned(sc, PyStr(i_name))
    ELSE InsertGroup(sel_obj, i_name, mat.ret, cmds_group(sc, i_name))

\* insert_transform, lines 1453-1461: the name of the group and the world
\* matrix of the object
InsertNamed(selected, name, suffix_name) ==
    IF selected.ret = "" THEN Returned(selected.scene, PyBool(FALSE))
    ELSE InsertWithMatrix(selected.scene, selected.ret,
                          IF name # "" THEN name
                          ELSE IF suffix_name # "" THEN selected.ret \o "_" \o suffix_name
                          ELSE selected.ret \o "_par",
                          cmds_xform_query(selected.scene, selected.ret, "m", TRUE))

\* insert_transform(sel_obj, name, suffix_name)
insert_transform(sc, sel_obj, name, suffix_name) ==
    InsertNamed(IF sel_obj = "" THEN get_selected_node(sc, TRUE) ELSE Returned(sc, sel_obj),
                name, suffix_name)

\* the loop of insert_groups: the k-th group is made, and the next ones follow
RECURSIVE InsertEach(_, _, _, _, _)
InsertNext(made, object_name, names, k, grps) ==
    IF made.raised # "" THEN made
    ELSE InsertEach(made.scene, object_name, names, k + 1, Append(grps, made.ret))

InsertEach(sc, object_name, names, k, grps) ==
    IF k > Len(names) THEN Returned(sc, grps)
    ELSE InsertNext(insert_transform(sc, object_name, names[k], ""),
                    object_name, names, k, grps)

\* insert_groups(object_name, names)
insert_groups(sc, object_name, names) == InsertEach(sc, object_name, names, 1, <<>>)

(***************************************************************************)
(* SpecGroups: groups inserted above a controller that is under the world  *)
(* or under a root, in a scene where one of the names may be taken         *)
(* already, and insert_transform called by itself with each way of naming  *)
(* the group, on a name or on the selection.                               *)
(***************************************************************************)
MaxGroups == 3

GroupNames == {"g1", "g2", "g3"}

\* the sequences over a set, of length at most n
RECURSIVE SeqsUpTo(_, _)
SeqsUpTo(S, n) ==
    IF n = 0 THEN {<<>>}
    ELSE LET shorter == SeqsUpTo(S, n - 1)
         IN  shorter \cup {Append(s, x) : s \in shorter, x \in S}

\* root > ctrl > ctrlShape or ctrl > ctrlShape, the controller moved and turned
GroupScene(under_root, taken) ==
    LET s1 == AddNode(EmptyScene, "root", "transform", 0)
        s2 == AddNode(s1, "ctrl", "transform", IF under_root THEN 1 ELSE 0)
        s3 == AddNode(s2, "ctrlShape", "nurbsCurve", 2)
        s4 == IF taken THEN AddNode(s3, "g1", "transform", 0) ELSE s3
    IN  WithLocalMatrix(WithLocalMatrix(s4, 1, Matrix(1, 0)), 2, Matrix(2, 1))

InitGroups ==
    /\ \E under_root \in BOOLEAN, taken \in BOOLEAN, picked \in {<<>>, <<2>>, <<1, 2>>} :
        scene = Selected(GroupScene(under_root, taken), picked)
    /\ module = NoModule
    /\ calls = <<>>
    /\ input = NoInput

\* a call with its outcome
GroupsCalled(op, object_name, names, out) ==
    /\ scene' = out.scene
    /\ calls' = <<[op |-> op, object_name |-> object_name, names |-> names,
                   raised |-> out.raised, ret |-> out.ret, scene_before |-> scene]>>
    /\ UNCHANGED <<module, input>>

InsertGroups ==
    /\ calls = <<>>
    /\ \E names \in SeqsUpTo(GroupNames, MaxGroups) :
        GroupsCalled("insert_groups", "ctrl", names, insert_groups(scene, "ctrl", names))

InsertTransform ==
    /\ calls = <<>>
    /\ \E sel_obj \in {"", "ctrl", "ctrlShape", "missing"}, name \in {"", "g1", "root"},
          suffix_name \in {"", "off"} :
        GroupsCalled("insert_transform", sel_obj, <<name, suffix_name>>,
                     insert_transform(scene, sel_obj, name, suffix_name))

NextGroups ==
    \/ InsertGroups
    \/ InsertTransform

SpecGroups == InitGroups /\ [][NextGroups]_vars

\* the name of the DAG parent of a node ("world" for a top node)
ParentName(sc, name) ==
    LET p == sc.nodes[NodeId(sc, name)].parent
    IN  IF p = 0 THEN "world" ELSE sc.nodes[p].name

\* C20: for insert_groups(object_name, names) with two or more names, none of
\* which exists beforehand, the returned sequence lists the groups in creation
\* order, the first returned group is object_name's direct parent, each later
\* group is the parent of the one before it, and the last returned group is the
\* outermost, under what was object_name's parent.
C20_GroupStackOrder ==
    \A i \in 1..Len(calls) :
        LET c == calls[i]
        IN  (/\ c.op = "insert_groups"
             /\ Len(c.names) >= 2
             /\ \A j, k \in 1..Len(c.names) : c.names[j] = c.names[k] => j = k
             /\ \A k \in 1..Len(c.names) : ~cmds_objExists(c.scene_before, c.names[k])
             /\ c.raised = "")
            => /\ c.ret = [k \in 1..Len(c.names) |-> PyStr(c.names[k])]
               /\ ParentName(scene, c.object_name) = c.names[1]
               /\ \A k \in 1..(Len(c.names) - 1) :
                    ParentName(scene, c.names[k]) = c.names[k + 1]
               /\ ParentName(scene, c.names[Len(c.names)])
                    = ParentName(c.scene_before, c.object_name)

(***************************************************************************)
(* control_utils: controller shapes, persisted and rebuilt.  A curve shape *)
(* node holds its geometry in attrs: control vertices <<x, y, z>>, knots   *)
(* and degree.  A shape file holds a sequence of sub-curve records, in the *)
(* order the dictionary read from it is iterated.                          *)
(***************************************************************************)
\* cmds.curve(p=points, k=knots, degree=degree): a curve shape under a new
\* transform, which is left selected; the host wants as many knots as points
\* plus degree minus one
cmds_curve(sc, points, knots, degree) ==
    IF \/ degree < 1
       \/ Len(points) < degree + 1
       \/ Len(knots) # Len(points) + degree - 1
       \/ \E k \in 1..Len(points) : Len(points[k]) # 3
    THEN Raised(sc, "RuntimeError")
    ELSE LET t_name == DefaultName(sc, "curve")
             with_t == AddNode(sc, t_name, "transform", 0)
             s_name == UniqueName(with_t, "curveShape" \o SubSeq(t_name, 6, Len(t_name)))
             with_s == AddNode(with_t, s_name, "nurbsCurve", sc.next_id)
         IN  Returned(Selected([with_s EXCEPT !.nodes[sc.next_id + 1].attrs =
                                   [cvs |-> points, knots |-> knots, degree |-> degree]],
                               <<sc.next_id>>), t_name)

\* get_m_shape(m_object, shape_type, as_strings): the children that are not
\* transforms, of the type asked when one is asked
get_m_shape(sc, m_object, shape_type, as_strings) ==
    LET children == ChildrenOf(sc, m_object.id)
        kept == SelectSeq(children, LAMBDA c :
                    /\ shape_type # "" => Truthy(HasFnOfHandle(sc, MObject(c), PyStr(shape_type)).ret)
                    /\ ~Truthy(HasFnOfHandle(sc, MObject(c), PyStr("transform")).ret))
    IN  IF children # <<>>
        THEN [k \in 1..Len(kept) |-> IF as_strings THEN PyStr(sc.nodes[kept[k]].name)
                                     ELSE MObject(kept[k])]
        ELSE IF Truthy(HasFnOfHandle(sc, m_object, PyStr(shape_type)).ret)
        THEN <<m_object>>
        ELSE <<>>

\* file_utils.JSONSerializer(file_name): the name of the file it reads and writes
JSONFileName(file_name) ==
    IF StrEndsWith(file_name, ".json") THEN file_name ELSE file_name \o ".json"

\* file_utils.split_file_name(file_name): the name without its extension
split_file_name(file_name) ==
    IF StrIn(".", file_name) THEN StrRPartitionHead(file_name, ".") ELSE file_name

\* file_utils.list_controller_files(): the names in the directory, as listed
find_controller_shapes(sc) ==
    [k \in 1..Len(sc.shape_files) |-> sc.shape_files[k].name]

\* JSONSerializer.read(): the content of the file of that name
ReadShapeFile(sc, file_name) ==
    LET at == {k \in 1..Len(sc.shape_files) : sc.shape_files[k].name = JSONFileName(file_name)}
    IN  sc.shape_files[CHOOSE k \in at : TRUE].data

\* JSONSerializer.write(data): the file is replaced, or added to the directory
WriteShapeFile(sc, file_name, data) ==
    LET name == JSONFileName(file_name)
        at == {k \in 1..Len(sc.shape_files) : sc.shape_files[k].name = name}
    IN  IF at = {}
        THEN [sc EXCEPT !.shape_files = Append(@, [name |-> name, data |-> data])]
        ELSE [sc EXCEPT !.shape_files[CHOOSE k \in at : TRUE].data = data]

\* the record of one curve shape in a shape file: the control vertices behind
\* their index, and the knots of the curve followed by two more
NurbRecord(name, geometry) ==
    [name |-> name,
     form |-> 0,
     knots |-> geometry.knots \o <<geometry.knots[Len(geometry.knots)],
                                   geometry.knots[Len(geometry.knots)]>>,
     cvs |-> [k \in 1..Len(geometry.cvs) |-> <<k - 1>> \o geometry.cvs[k]],
     degree |-> geometry.degree,
     order |-> geometry.degree + 1]

\* curve_utils.get_nurb_data(controller_name): a record for every curve shape
\* of the controller
get_nurb_data(sc, controller_name) ==
    IF ~cmds_objExists(sc, controller_name) THEN Raised(sc, "RuntimeError")
    ELSE LET shapes == get_m_shape(sc, MObject(NodeId(sc, controller_name)), "nurbsCurve", FALSE)
         IN  Returned(sc, [k \in 1..Len(shapes) |->
                              NurbRecord(sc.nodes[shapes[k].id].name, sc.nodes[shapes[k].id].attrs)])

\* get_controller_path(shape_name): the path in the controller-data directory
get_controller_path(shape_name) == shape_name

\* save_controller_shape, lines 242-246: the data is written
WriteControllerShape(controller_name, curve_data) ==
    IF curve_data.raised # "" THEN curve_data
    ELSE Returned(WriteShapeFile(curve_data.scene, get_controller_path(controller_name),
                                 curve_data.ret),
                  get_controller_path(controller_name))

\* save_controller_shape(controller_name)
save_controller_shape(sc, controller_name) ==
    WriteControllerShape(controller_name, get_nurb_data(sc, controller_name))

\* find_shape_in_dir(shape_name)
find_shape_in_dir(sc, shape_name) ==
    SelectSeq(find_controller_shapes(sc), LAMBDA x : StrIn(shape_name, split_file_name(x)))

\* is_shape_in_dir(shape_name)
is_shape_in_dir(sc, shape_name) == find_shape_in_dir(sc, shape_name) # <<>>

\* get_controller_data_file without the test of line 271: no data when no file
\* matches
get_controller_data_file_unchecked(sc, shape_name) ==
    IF ~is_shape_in_dir(sc, shape_name) THEN Returned(sc, <<>>)
    ELSE Returned(sc, ReadShapeFile(sc, get_controller_path(find_shape_in_dir(sc, shape_name)[1])))

\* get_controller_data_file(shape_name)
get_controller_data_file(sc, shape_name) ==
    IF ~is_shape_in_dir(sc, shape_name) THEN Raised(sc, "IOError")
    ELSE Returned(sc, ReadShapeFile(sc, get_controller_path(find_shape_in_dir(sc, shape_name)[1])))

\* cv_point[1:] for every record of cvs
CvPoints(cvs) == [k \in 1..Len(cvs) |-> SubSeq(cvs[k], 2, Len(cvs[k]))]

\* knots[:-2]
KnotsButTwo(knots) == SubSeq(knots, 1, Len(knots) - 2)

\* the loop of create_controller_shape: the k-th curve is made, and the next
\* ones follow
RECURSIVE CurveEach(_, _, _, _)
CurveNext(made, curve_data, k, curves) ==
    IF made.raised # "" THEN made
    ELSE CurveEach(made.scene, curve_data, k + 1, Append(curves, made.ret))

CurveEach(sc, curve_data, k, curves) ==
    IF k > Len(curve_data) THEN Returned(sc, curves)
    ELSE CurveNext(cmds_curve(sc, CvPoints(curve_data[k].cvs),
                              KnotsButTwo(curve_data[k].knots), curve_data[k].degree),
                   curve_data, k, curves)

\* create_controller_shape, lines 309-322
CurvesOfData(curve_data) ==
    IF curve_data.raised # "" THEN curve_data
    ELSE CurveEach(curve_data.scene, curve_data.ret, 1, <<>>)

\* create_controller_shape(shape_name)
create_controller_shape(sc, shape_name) ==
    CurvesOfData(get_controller_data_file(sc, shape_name))

\* get_shape_name(object_name, shape_type): the names of the shapes
ShapeNamesOf(selected, shape_type) ==
    IF ~cmds_objExists(selected.scene, selected.ret)
    THEN Raised(selected.scene, "RuntimeError")
    ELSE Returned(selected.scene,
                  get_m_shape(selected.scene, MObject(NodeId(selected.scene, selected.ret)),
                              shape_type, TRUE))

get_shape_name(sc, object_name, shape_type) ==
    ShapeNamesOf(IF object_name = "" THEN get_selected_node(sc, TRUE)
                 ELSE Returned(sc, object_name), shape_type)

\* get_curve_shapes_in_array(curve_names): the first shape of every curve
RECURSIVE get_curve_shapes_in_array(_, _, _, _)
CurveShapeNext(shapes, curve_names, k, c_shapes) ==
    IF shapes.raised # "" THEN shapes
    ELSE IF shapes.ret = <<>> THEN Raised(shapes.scene, "IndexError")
    ELSE get_curve_shapes_in_array(shapes.scene, curve_names, k + 1,
                                   Append(c_shapes, shapes.ret[1].str))

get_curve_shapes_in_array(sc, curve_names, k, c_shapes) ==
    IF k > Len(curve_names) THEN Returned(sc, c_shapes)
    ELSE CurveShapeNext(get_shape_name(sc, curve_names[k], ""), curve_names, k, c_shapes)

\* cmds.parent(shapes + [target], r=True, s=True): the shapes go under the
\* target as they are
cmds_parent_shapes(sc, shapes, target) ==
    IF ~cmds_objExists(sc, target) \/ \E k \in 1..Len(shapes) : ~cmds_objExists(sc, shapes[k])
    THEN Raised(sc, "ValueError")
    ELSE Returned([sc EXCEPT
                      !.nodes = [i \in NodeIds(sc) |->
                                    IF \E k \in 1..Len(shapes) : sc.nodes[i].name = shapes[k]
                                    THEN [sc.nodes[i] EXCEPT !.parent = NodeId(sc, target)]
                                    ELSE sc.nodes[i]],
                      !.modified = TRUE], "")

\* parent_curve_shapes without line 347: the emptied transforms are kept
KeepEmptied(parented, curve_names) == Answered(parented, curve_names[Len(curve_names)])

\* parent_curve_shapes, lines 347-348: the emptied transforms are deleted
DeleteEmptied(parented, curve_names) ==
    IF parented.raised # "" THEN parented
    ELSE Answered(cmds_delete(parented.scene, SubSeq(curve_names, 1, Len(curve_names) - 1)),
                  curve_names[Len(curve_names)])

\* parent_curve_shapes, line 346: the shapes but the last go under the last curve
ParentShapes(curve_shapes, curve_names) ==
    IF curve_shapes.raised # "" THEN curve_shapes
    ELSE DeleteEmptied(cmds_parent_shapes(curve_shapes.scene,
                                          SubSeq(curve_shapes.ret, 1, Len(curve_shapes.ret) - 1),
                                          curve_names[Len(curve_names)]),
                       curve_names)

\* parent_curve_shapes(curve_names)
parent_curve_shapes(sc, curve_names) ==
    IF curve_names = <<>> THEN Raised(sc, "IndexError")
    ELSE IF Len(curve_names) = 1 THEN Returned(sc, curve_names[1])
    ELSE ParentShapes(get_curve_shapes_in_array(sc, curve_names, 1, <<>>), curve_names)

\* the names of the groups of a controller, last suffix first
group_names_reversed(curve_name, groups) ==
    [k \in 1..Len(groups) |-> curve_name \o "_" \o groups[Len(groups) + 1 - k]]

\* map(lambda x: '{}_{}'.format(curve_name, x), groups)
group_names_of(curve_name, groups) ==
    [k \in 1..Len(groups) |-> curve_name \o "_" \o groups[k]]

\* create_control, lines 366 and 369-370: the record returned
ControlGrouped(curve_name, grps) ==
    Answered(grps, [controller |-> curve_name, group_names |-> grps.ret])

\* create_control, lines 367-368: the groups are inserted
ControlNamed(groups, renamed) ==
    IF renamed.raised # "" THEN renamed
    ELSE ControlGrouped(renamed.ret,
                        insert_groups(renamed.scene, renamed.ret,
                                      group_names_of(renamed.ret, groups)))

\* create_control, lines 362-365: the curve is renamed
ControlOfCurve(shape_name, name, groups, curve) ==
    IF curve.raised # "" THEN curve
    ELSE ControlNamed(groups, cmds_rename(curve.scene, curve.ret,
                                          IF name # "" THEN name ELSE shape_name))

\* create_control, line 361: the curves are merged
ControlOfCurves(shape_name, name, groups, curves) ==
    IF curves.raised # "" THEN curves
    ELSE ControlOfCurve(shape_name, name, groups,
                        parent_curve_shapes(curves.scene, curves.ret))

\* create_control(shape_name, name, groups)
create_control(sc, shape_name, name, groups) ==
    ControlOfCurves(shape_name, name, groups, create_controller_shape(sc, shape_name))

(***************************************************************************)
(* SpecShapes: a controller named cube, of one or two curves, is saved,    *)
(* and shapes and controls are created from the directory, which may hold  *)
(* other files already: one whose name contains "cube", one that does not, *)
(* or an older cube file.                                                  *)
(***************************************************************************)
MaxShapeCalls == 2

LineGeometry ==
    [cvs |-> <<<<0, 0, 0>>, <<1, 0, 0>>, <<1, 1, 0>>>>, knots |-> <<0, 1, 2>>, degree |-> 1]

ArcGeometry ==
    [cvs |-> <<<<0, 0, 0>>, <<1, 0, 0>>, <<1, 1, 0>>, <<0, 1, 0>>>>,
     knots |-> <<0, 0, 1, 2, 2>>, degree |-> 2]

EdgeGeometry ==
    [cvs |-> <<<<0, 0, 0>>, <<0, 0, 1>>>>, knots |-> <<0, 1>>, degree |-> 1]

\* a curve shape with its geometry under a transform
WithCurveShape(sc, name, parent, geometry) ==
    [AddNode(sc, name, "nurbsCurve", parent) EXCEPT !.nodes[sc.next_id].attrs = geometry]

\* the controller cube, of one curve or of two, and may be a node test_ctrl
ShapeScene(two_curves, with_node) ==
    LET s1 == AddNode(EmptyScene, "cube", "transform", 0)
        s2 == WithCurveShape(s1, "cubeShape", 1, LineGeometry)
        s3 == IF two_curves THEN WithCurveShape(s2, "cubeShape1", 1, ArcGeometry) ELSE s2
    IN  IF with_node THEN AddNode(s3, "test_ctrl", "transform", 0) ELSE s3

ShapeDirectories ==
    {<<>>,
     <<[name |-> "big_cube.json", data |-> <<NurbRecord("big_cubeShape", EdgeGeometry)>>]>>,
     <<[name |-> "circle.json", data |-> <<NurbRecord("circleShape", ArcGeometry)>>]>>,
     <<[name |-> "cube.json", data |-> <<NurbRecord("cubeShape", EdgeGeometry)>>]>>}

InitShapes ==
    /\ \E two_curves \in BOOLEAN, with_node \in BOOLEAN, dir \in ShapeDirectories :
        scene = [ShapeScene(two_curves, with_node) EXCEPT !.shape_files = dir]
    /\ module = NoModule
    /\ calls = <<>>
    /\ input = NoInput

\* a call may follow a save_controller_shape, up to the bound
MayCallShapes ==
    \/ calls = <<>>
    \/ /\ calls # <<>>
       /\ Len(calls) < MaxShapeCalls
       /\ calls[1].op = "save_controller_shape"

ShapesCalled(op, shape_name, name, groups, out) ==
    /\ scene' = out.scene
    /\ calls' = Append(calls, [op |-> op, shape_name |-> shape_name, name |-> name,
                               groups |-> groups, raised |-> out.raised, ret |-> out.ret,
                               scene_before |-> scene, scene_after |-> out.scene])
    /\ UNCHANGED <<module, input>>

SaveControllerShape ==
    /\ calls = <<>>
    /\ ShapesCalled("save_controller_shape", "cube", "", <<>>,
                    save_controller_shape(scene, "cube"))

CreateControllerShape ==
    /\ MayCallShapes
    /\ \E shape_name \in {"cube", "circle", "star"} :
        ShapesCalled("create_controller_shape", shape_name, "", <<>>,
                     create_controller_shape(scene, shape_name))

CreateControl ==
    /\ MayCallShapes
    /\ \E shape_name \in {"cube", "star"}, name \in {"", "test_ctrl"},
          groups \in {<<>>, <<"grp">>, <<"grp", "off">>, <<"off", "off">>} :
        ShapesCalled("create_control", shape_name, name, groups,
                     create_control(scene, shape_name, name, groups))

NextShapes ==
    \/ SaveControllerShape
    \/ CreateControllerShape
    \/ CreateControl

SpecShapes == InitShapes /\ [][NextShapes]_vars

\* the geometry of the curve shape under the transform of a name
CurveGeometry(sc, curve_name) ==
    sc.nodes[ChildrenOf(sc, NodeId(sc, curve_name))[1]].attrs

\* C12: when a shape file for "cube" exists and no node named test_ctrl or
\* test_ctrl_grp exists, create_control("cube", name="test_ctrl") with the
\* default groups returns a record whose controller is exactly "test_ctrl" and
\* whose group_names has length 1; and whenever create_control returns,
\* group_names has one entry per element of groups, in order, each named
\* <controller>_<group suffix>.
C12_ControlRecord ==
    \A i \in 1..Len(calls) :
        LET c == calls[i]
        IN  c.op = "create_control" =>
            /\ (/\ c.shape_name = "cube"
                /\ c.name = "test_ctrl"
                /\ c.groups = <<"grp">>
                /\ \E k \in 1..Len(c.scene_before.shape_files) :
                        c.scene_before.shape_files[k].name = "cube.json"
                /\ ~cmds_objExists(c.scene_before, "test_ctrl")
                /\ ~cmds_objExists(c.scene_before, "test_ctrl_grp"))
               => /\ c.raised = ""
                  /\ c.ret.controller = "test_ctrl"
                  /\ Len(c.ret.group_names) = 1
            /\ c.raised = "" =>
                  /\ Len(c.ret.group_names) = Len(c.groups)
                  /\ \A k \in 1..Len(c.groups) :
                        c.ret.group_names[k] = PyStr(c.ret.controller \o "_" \o c.groups[k])

\* a control made from the saved two-curve cube under two groups, named after
\* the controller in the order asked
C12_Witness ==
    /\ Len(calls) = 2
    /\ calls[2].op = "create_control"
    /\ calls[2].raised = ""
    /\ calls[2].name = "test_ctrl"
    /\ calls[2].ret.controller = "test_ctrl"
    /\ calls[2].ret.group_names = <<PyStr("test_ctrl_grp"), PyStr("test_ctrl_off")>>
    /\ cmds_objExists(scene, "test_ctrl_off")
    /\ Len(ChildrenOf(scene, NodeId(scene, "test_ctrl"))) = 2

\* C13: round trip: after save_controller_shape(name),
\* create_controller_shape(name) creates one curve per sub-curve record of the
\* file saved, each built from exactly the recorded control vertices with their
\* index column dropped (as many as the original curve has) and from the
\* recorded knots with the last two removed.
C13_ShapeRoundTrip ==
    \A i \in 1..(Len(calls) - 1) :
        LET saved == calls[i]
            made == calls[i + 1]
            file == ReadShapeFile(saved.scene_after, saved.ret)
            original == get_m_shape(saved.scene_before, MObject(NodeId(saved.scene_before, "cube")),
                                    "nurbsCurve", FALSE)
        IN  (/\ saved.op = "save_controller_shape"
             /\ saved.raised = ""
             /\ made.op = "create_controller_shape"
             /\ made.shape_name = saved.shape_name)
            => /\ made.raised = ""
               /\ Len(made.ret) = Len(file)
               /\ \A k \in 1..Len(file) :
                    LET curve == CurveGeometry(made.scene_after, made.ret[k])
                    IN  /\ curve.cvs = CvPoints(file[k].cvs)
                        /\ Len(curve.cvs) = Len(saved.scene_before.nodes[original[k].id].attrs.cvs)
                        /\ curve.knots = KnotsButTwo(file[k].knots)

\* C14: create_controller_shape(shape_name) and create_control raise IOError
\* when no persisted shape file name contains shape_name, and then create no
\* curve and change nothing in the scene.
C14_MissingShapeRaises ==
    \A i \in 1..Len(calls) :
        LET c == calls[i]
        IN  (/\ c.op \in {"create_controller_shape", "create_control"}
             /\ \A k \in 1..Len(c.scene_before.shape_files) :
                    ~StrIn(c.shape_name, split_file_name(c.scene_before.shape_files[k].name)))
            => /\ c.raised = "IOError"
               /\ c.scene_after = c.scene_before

\* both functions were refused the shape star, in a directory that holds other
\* files, and the scene is as it was
C14_Witness ==
    /\ Len(calls) = 2
    /\ calls[2].op = "create_control"
    /\ calls[2].shape_name = "star"
    /\ calls[2].raised = "IOError"
    /\ Len(scene.shape_files) = 2
    /\ scene = calls[2].scene_before

(***************************************************************************)
(* control_utils.mirror_transforms.                                        *)
(***************************************************************************)
\* s.replace(old, new), for a non-empty old
RECURSIVE StrReplace(_, _, _)
StrReplace(s, old, new) ==
    IF Len(s) < Len(old) THEN s
    ELSE IF SubSeq(s, 1, Len(old)) = old
    THEN new \o StrReplace(SubSeq(s, Len(old) + 1, Len(s)), old, new)
    ELSE SubSeq(s, 1, 1) \o StrReplace(SubSeq(s, 2, Len(s)), old, new)

\* transform_utils.Transform.mirror_matrix: the matrix mirrored across the
\* plane the translation axis crosses
mirror_matrix(matrix) == Matrix(0 - matrix.t, 0 - matrix.r)

\* mirror_transforms, lines 62-71: the parent of the mirror object is given
\* the mirrored world matrix of the parent of the object
MirrorParents(sc, p_object, p_mirror_object) ==
    IF p_object.raised # "" THEN Raised(sc, p_object.raised)
    ELSE IF p_mirror_object.raised # "" THEN Raised(sc, p_mirror_object.raised)
    ELSE IF p_object.ret = <<>> \/ p_mirror_object.ret = <<>> THEN Raised(sc, "IndexError")
    ELSE IF ~cmds_objExists(sc, p_object.ret[1]) \/ ~cmds_objExists(sc, p_mirror_object.ret[1])
    THEN Raised(sc, "RuntimeError")
    ELSE Answered(cmds_xform(sc, p_mirror_object.ret[1], "m",
                             mirror_matrix(WorldMatrix(sc, NodeId(sc, p_object.ret[1]))), TRUE),
                  TRUE)

\* mirror_transforms from line 60 on, the test being that no mirror name was
\* computed
MirrorUnlessUnnamed(sc, object_name, mirror_obj_name) ==
    IF mirror_obj_name = "" THEN Returned(sc, FALSE)
    ELSE MirrorParents(sc,
            get_transform_relatives(sc, object_name, PyBool(TRUE), PyBool(FALSE), "", TRUE),
            get_transform_relatives(sc, mirror_obj_name, PyBool(TRUE), PyBool(FALSE), "", TRUE))

\* mirror_transforms from line 60 on: the test compares the mirror name with
\* itself
MirrorUnlessSame(sc, object_name, mirror_obj_name) ==
    IF mirror_obj_name = mirror_obj_name THEN Returned(sc, FALSE)
    ELSE MirrorParents(sc,
            get_transform_relatives(sc, object_name, PyBool(TRUE), PyBool(FALSE), "", TRUE),
            get_transform_relatives(sc, mirror_obj_name, PyBool(TRUE), PyBool(FALSE), "", TRUE))

\* mirror_transforms, lines 55-59: the name of the mirror object
MirrorName(object_name) ==
    IF StrIn("_r_", object_name) THEN StrReplace(object_name, "_r_", "_l_")
    ELSE IF StrIn("_l_", object_name) THEN StrReplace(object_name, "_l_", "_r_")
    ELSE ""

\* mirror_transforms once object_name is known
MirrorOf(selected) ==
    MirrorUnlessSame(selected.scene, selected.ret, MirrorName(selected.ret))

\* mirror_transforms(object_name)
mirror_transforms(sc, object_name) ==
    MirrorOf(IF object_name = "" THEN get_selected_node(sc, TRUE) ELSE Returned(sc, object_name))

(***************************************************************************)
(* SpecMirror: mirror_transforms asked of a left controller, a right one,  *)
(* one without a side, one that does not exist and the selection, in a     *)
(* scene where the groups of the sided controllers are posed and the right *)
(* one may be missing.                                                     *)
(***************************************************************************)
MirrorScene(with_mirror, pose) ==
    LET s1 == AddNode(EmptyScene, "arm_l_grp", "transform", 0)
        s2 == AddNode(s1, "arm_l_ctrl", "transform", 1)
        s3 == AddNode(s2, "arm_ctrl", "transform", 0)
        s4 == WithLocalMatrix(s3, 1, Matrix(pose, pose))
        s5 == AddNode(s4, "arm_r_grp", "transform", 0)
    IN  IF with_mirror THEN AddNode(s5, "arm_r_ctrl", "transform", 4) ELSE s4

InitMirror ==
    /\ \E with_mirror \in BOOLEAN, pose \in 0..MaxAttrValue, pref \in BOOLEAN,
          picked \in {<<>>, <<2>>, <<3>>, <<3, 2>>} :
        scene = cmds_selectPref(Selected(MirrorScene(with_mirror, pose), picked), pref)
    /\ module = NoModule
    /\ calls = <<>>
    /\ input = NoInput

MirrorCalled(object_name, out) ==
    /\ scene' = out.scene
    /\ calls' = <<[op |-> "mirror_transforms", object_name |-> object_name,
                   raised |-> out.raised, ret |-> out.ret, scene_before |-> scene]>>
    /\ UNCHANGED <<module, input>>

MirrorTransforms ==
    /\ calls = <<>>
    /\ \E object_name \in {"", "arm_l_ctrl", "arm_r_ctrl", "arm_ctrl", "leg_l_ctrl", "a_l__r_b"} :
        MirrorCalled(object_name, mirror_transforms(scene, object_name))

NextMirror == MirrorTransforms

SpecMirror == InitMirror /\ [][NextMirror]_vars

FirstSelected(selected) ==
    IF selected.ret = <<>> THEN Raised(selected.scene, "IndexError")
    ELSE Returned(selected.scene, selected.ret[1])

\* get_selected_node(single=False)[-1]
LastSelected(selected) ==
    IF selected.ret = <<>> THEN Raised(selected.scene, "IndexError")
    ELSE Returned(selected.scene, selected.ret[Len(selected.ret)])

\* cmds.xform(source, <flag>=s_xform, ws=ws) with what the query of the target
\* answered
CopyXform(sc, source, flag, ws, s_xform) ==
    IF s_xform.raised # "" THEN s_xform
    ELSE cmds_xform(sc, source, flag, s_xform.ret, ws)

\* one of the three copies of snap_to_transform, made when its flag is set
SnapStep(out, source, target, flag, ws, set) ==
    IF out.raised # "" \/ ~set THEN out
    ELSE CopyXform(out.scene, source, flag, ws, cmds_xform_query(out.scene, target, flag, ws))

\* snap_to_transform, lines 1429-1440
SnapWithTarget(source, trg, matrix, translate, rotation) ==
    IF trg.raised # "" THEN trg
    ELSE IF source = "" \/ trg.ret = "" THEN Returned(trg.scene, FALSE)
    ELSE Answered(SnapStep(SnapStep(SnapStep(Returned(trg.scene, ""), source, trg.ret,
                                             "m", TRUE, matrix),
                                    source, trg.ret, "t", TRUE, translate),
                           source, trg.ret, "ro", FALSE, rotation),
                  TRUE)

\* snap_to_transform, lines 1427-1428
SnapWithSource(src, target, matrix, translate, rotation) ==
    IF src.raised # "" THEN src
    ELSE SnapWithTarget(src.ret,
                        IF target = "" THEN LastSelected(get_selected_node(src.scene, FALSE))
                        ELSE Returned(src.scene, target),
                        matrix, translate, rotation)

\* snap_to_transform(source, target, matrix, translate, rotation)
snap_to_transform(sc, source, target, matrix, translate, rotation) ==
    SnapWithSource(IF source = "" THEN FirstSelected(get_selected_node(sc, FALSE))
                   ELSE Returned(sc, source),
                   target, matrix, translate, rotation)

(***************************************************************************)
(* SpecSnap: snap_to_transform between a source and a target that sit      *)
(* under groups of their own, all of them posed, named by the caller or    *)
(* taken from the selection.                                               *)
(***************************************************************************)
\* src_grp > src and trg_grp > trg
SnapScene(pose) ==
    LET s1 == AddNode(EmptyScene, "src_grp", "transform", 0)
        s2 == AddNode(s1, "src", "transform", 1)
        s3 == AddNode(s2, "trg_grp", "transform", 0)
        s4 == AddNode(s3, "trg", "transform", 3)
    IN  WithLocalMatrix(WithLocalMatrix(WithLocalMatrix(WithLocalMatrix(s4,
            1, Matrix(1, 2)), 2, Matrix(0, 1)), 3, Matrix(pose, 1)), 4, Matrix(2, pose))

InitSnap ==
    /\ \E pose \in 0..MaxAttrValue, pref \in BOOLEAN,
          picked \in {<<>>, <<2>>, <<2, 4>>, <<4, 2>>} :
        scene = cmds_selectPref(Selected(SnapScene(pose), picked), pref)
    /\ module = NoModule
    /\ calls = <<>>
    /\ input = NoInput

SnapCalled(args, out) ==
    /\ scene' = out.scene
    /\ calls' = <<[op |-> "snap_to_transform", args |-> args,
                   raised |-> out.raised, ret |-> out.ret, scene_before |-> scene]>>
    /\ UNCHANGED <<module, input>>

SnapToTransform ==
    /\ calls = <<>>
    /\ \E args \in [source : {"", "src", "missing"}, target : {"", "trg"},
                    matrix : BOOLEAN, translate : BOOLEAN, rotation : BOOLEAN] :
        SnapCalled(args, snap_to_transform(scene, args.source, args.target, args.matrix,
                                           args.translate, args.rotation))

NextSnap == SnapToTransform

SpecSnap == InitSnap /\ [][NextSnap]_vars

\* the name an argument of snap_to_transform stands for: the one given, or the
\* selected node of that place
SnapResolved(sc, name, place) ==
    IF name # "" THEN name ELSE sc.nodes[sc.selection[place]].name

\* C17: snap_to_transform called without a source or without a target while
\* the selection is empty returns False, without raising and without changing
\* any transform; when both are resolved it copies the target's world matrix,
\* world translation and/or rotation (per the flags set) onto the source,
\* leaves the target unchanged, and returns True.
C17_SnapToTransform ==
    \A i \in 1..Len(calls) :
        LET c == calls[i]
            before == c.scene_before
        IN  /\ ((c.args.source = "" \/ c.args.target = "") /\ before.selection = <<>>)
                => /\ c.raised = ""
                   /\ c.ret = FALSE
                   /\ scene.nodes = before.nodes
            /\ (/\ before.selection # <<>>
                /\ cmds_objExists(before, SnapResolved(before, c.args.source, 1)))
                => LET s == NodeId(before, SnapResolved(before, c.args.source, 1))
                       t == NodeId(before, SnapResolved(before, c.args.target,
                                                        Len(before.selection)))
                   IN  /\ c.raised = ""
                       /\ c.ret = TRUE
                       /\ (c.args.matrix /\ ~c.args.rotation)
                            => WorldMatrix(scene, s) = WorldMatrix(before, t)
                       /\ (c.args.translate \/ c.args.matrix)
                            => WorldMatrix(scene, s).t = WorldMatrix(before, t).t
                       /\ c.args.rotation
                            => LocalMatrix(scene, s).r = LocalMatrix(before, t).r
                       /\ s # t => scene.nodes[t] = before.nodes[t]

(***************************************************************************)
(* object_utils.create_container.  The scene keeps, in contained, the      *)
(* pairs <<container, node>> of the nodes each container holds.            *)
(***************************************************************************)
\* cmds.container(name=name): a new, empty container, left selected
cmds_container(sc, name) ==
    Returned(Selected(AddNode(sc, UniqueName(sc, name), "container", 0), <<sc.next_id>>),
             UniqueName(sc, name))

\* cmds.objectType(name)
cmds_objectType(sc, name) ==
    IF ~cmds_objExists(sc, name) THEN Raised(sc, "RuntimeError")
    ELSE Returned(sc, sc.nodes[NodeId(sc, name)].type)

\* cmds.container(name, edit=True, addNode=node)
cmds_container_addNode(sc, name, node) ==
    IF ~cmds_objExists(sc, name) \/ ~cmds_objExists(sc, node) THEN Raised(sc, "RuntimeError")
    ELSE IF sc.nodes[NodeId(sc, name)].type # "container" THEN Raised(sc, "RuntimeError")
    ELSE Returned([sc EXCEPT !.contained = @ \cup {<<NodeId(sc, name), NodeId(sc, node)>>},
                             !.modified = TRUE], "")

\* create_container, lines 1408-1409, with no node added
ContainerAddNone(out, name, nodes, k) == out

\* create_container, lines 1408-1409: the loop over nodes, from the k-th on
RECURSIVE ContainerAddEach(_, _, _, _)
ContainerAddEach(out, name, nodes, k) ==
    IF out.raised # "" \/ k > Len(nodes) THEN out
    ELSE ContainerAddEach(cmds_container_addNode(out.scene, name, nodes[k]), name, nodes, k + 1)

\* create_container, lines 1407-1412
ContainerOfType(type, name, nodes) ==
    IF type.raised # "" THEN type
    ELSE IF type.ret = "container"
    THEN Answered(ContainerAddEach(Returned(type.scene, ""), name, nodes, 1), TRUE)
    ELSE Returned(type.scene, FALSE)

\* create_container, lines 1405-1407
ContainerMade(made, name, nodes) ==
    IF made.raised # "" THEN made
    ELSE ContainerOfType(cmds_objectType(made.scene, name), name, nodes)

\* create_container, lines 1403-1412, once nodes is known
ContainerOf(sc, name, nodes) ==
    IF nodes = <<>> THEN Returned(sc, FALSE)
    ELSE ContainerMade(IF ~cmds_objExists(sc, name) THEN cmds_container(sc, name)
                       ELSE Returned(sc, ""),
                       name, nodes)

\* create_container, lines 1401-1402
ContainerOfSelected(selected, name) == ContainerOf(selected.scene, name, selected.ret)

\* create_container(name, nodes)
create_container(sc, name, nodes) ==
    IF nodes = <<>> THEN ContainerOfSelected(get_selected_node(sc, FALSE), name)
    ELSE ContainerOf(sc, name, nodes)

(***************************************************************************)
(* SpecContainer: create_container in a scene of three utility nodes where *)
(* the name asked for is free, is a container already (empty or holding a  *)
(* node) or is a transform.                                                *)
(***************************************************************************)
ContainerScene(taken) ==
    LET s1 == AddNode(EmptyScene, "arm_mult", "unitConversion", 0)
        s2 == AddNode(s1, "arm_conv", "unitConversion", 0)
        s3 == AddNode(s2, "arm_grp", "transform", 0)
    IN  CASE taken = "free" -> s3
          [] taken = "empty" -> AddNode(s3, "arm_container", "container", 0)
          [] taken = "holding" ->
                [AddNode(s3, "arm_container", "container", 0) EXCEPT !.contained = {<<4, 2>>}]
          [] OTHER -> s3

InitContainer ==
    /\ \E taken \in {"free", "empty", "holding"}, pref \in BOOLEAN,
          picked \in {<<>>, <<1>>, <<1, 2>>, <<2, 1>>} :
        scene = cmds_selectPref(Selected(ContainerScene(taken), picked), pref)
    /\ module = NoModule
    /\ calls = <<>>
    /\ input = NoInput

ContainerCalled(args, out) ==
    /\ scene' = out.scene
    /\ calls' = <<[op |-> "create_container", args |-> args,
                   raised |-> out.raised, ret |-> out.ret, scene_before |-> scene]>>
    /\ UNCHANGED <<module, input>>

CreateContainer ==
    /\ calls = <<>>
    /\ \E args \in [name : {"arm_container", "arm_grp"},
                    nodes : {<<>>, <<"arm_mult">>, <<"arm_conv", "arm_mult">>,
                             <<"arm_mult", "missing">>}] :
        ContainerCalled(args, create_container(scene, args.name, args.nodes))

NextContainer == CreateContainer

SpecContainer == InitContainer /\ [][NextContainer]_vars

\* the nodes a call of create_container is to add: the ones given, or the
\* selected ones as get_selected_node lists them
ContainerNodes(c) ==
    IF c.args.nodes # <<>> THEN c.args.nodes
    ELSE get_selected_node(c.scene_before, FALSE).ret

\* the names of the nodes a container holds
ContainedIn(sc, name) ==
    {sc.nodes[c[2]].name : c \in {d \in sc.contained : d[1] = NodeId(sc, name)}}

\* C18: create_container returns False when there are no nodes to add (none
\* given and nothing selected), and then creates no container; it returns
\* False without adding any node when an object called name exists but is not
\* a container; otherwise, the given nodes existing, it creates the container
\* if absent, adds every node to it and returns True.
C18_CreateContainer ==
    \A i \in 1..Len(calls) :
        LET c == calls[i]
            before == c.scene_before
            nodes == ContainerNodes(c)
            range == {nodes[k] : k \in 1..Len(nodes)}
        IN  /\ nodes = <<>>
                => /\ c.raised = "" /\ c.ret = FALSE
                   /\ scene.nodes = before.nodes
                   /\ scene.contained = before.contained
            /\ (/\ nodes # <<>>
                /\ cmds_objExists(before, c.args.name)
                /\ before.nodes[NodeId(before, c.args.name)].type # "container")
                => /\ c.raised = "" /\ c.ret = FALSE
                   /\ scene.nodes = before.nodes
                   /\ scene.contained = before.contained
            /\ (/\ nodes # <<>>
                /\ range \subseteq NodeNames(before)
                /\ ~(/\ cmds_objExists(before, c.args.name)
                     /\ before.nodes[NodeId(before, c.args.name)].type # "container"))
                => /\ c.raised = "" /\ c.ret = TRUE
                   /\ cmds_objExists(scene, c.args.name)
                   /\ scene.nodes[NodeId(scene, c.args.name)].type = "container"
                   /\ range \subseteq ContainedIn(scene, c.args.name)
                   /\ \A id \in NodeIds(before) : scene.nodes[id] = before.nodes[id]
                   /\ before.contained \subseteq scene.contained

\* a call that found no container of the name, created it and put two nodes
\* in it
C18_Witness ==
    /\ calls # <<>>
    /\ calls[1].op = "create_container"
    /\ ~cmds_objExists(calls[1].scene_before, calls[1].args.name)
    /\ Len(ContainerNodes(calls[1])) = 2
    /\ calls[1].raised = ""
    /\ calls[1].ret = TRUE
    /\ ContainedIn(scene, calls[1].args.name) = {"arm_mult", "arm_conv"}

(***************************************************************************)
(* rig_modules/PreBuild_v0000.py: the PreBuild module.                     *)
(***************************************************************************)
\* cmds.file(new=True, f=force): a new, empty scene.  Without force the host
\* refuses while the scene has unsaved changes.  The preferences and the
\* files on disk are not part of the scene and stay.
cmds_file_new(sc, force) ==
    IF ~force /\ sc.modified THEN Raised(sc, "RuntimeError")
    ELSE Returned([EmptyScene EXCEPT !.trackSelectionOrder = sc.trackSelectionOrder,
                                     !.shape_files = sc.shape_files],
                  "untitled")

\* PreBuild.__init__(name)
PreBuild(name) == [name |-> name, class_name |-> "PreBuild"]

\* PreBuild.create()
PreBuild_create(sc, m) == Returned(sc, TRUE)

\* PreBuild.finish() asking for the new scene without force
PreBuild_finish_unforced(sc, m) == Answered(cmds_file_new(sc, FALSE), PyNone)

\* PreBuild.finish()
PreBuild_finish(sc, m) == Answered(cmds_file_new(sc, TRUE), PyNone)

(***************************************************************************)
(* SpecPreBuild: a PreBuild module in a scene that is new, or opened from  *)
(* a file, or changed since; nodes are created, and create() and finish()  *)
(* are called, in any order.                                               *)
(***************************************************************************)
MaxPreBuildCalls == 3

PreBuildScene(opened, saved) ==
    IF ~opened THEN EmptyScene
    ELSE [AddNode(AddNode(EmptyScene, "root_grp", "transform", 0), "root_jnt", "joint", 1)
            EXCEPT !.modified = ~saved]

InitPreBuild ==
    /\ \E opened \in BOOLEAN, saved \in BOOLEAN : scene = PreBuildScene(opened, saved)
    /\ module = PreBuild("pre")
    /\ calls = <<>>
    /\ input = NoInput

PreBuildCalled(op, out) ==
    /\ Len(calls) < MaxPreBuildCalls
    /\ scene' = out.scene
    /\ calls' = Append(calls, [op |-> op, raised |-> out.raised, ret |-> out.ret,
                               scene_before |-> scene, scene_after |-> out.scene])
    /\ UNCHANGED <<module, input>>

\* the rig is worked on: a node is created in the scene
PreBuildCreateNode ==
    \E node_type \in {"transform", "joint"}, node_name \in {"arm", "leg"} :
        PreBuildCalled("createNode",
                       Answered(cmds_createNode(scene, node_type, node_name), PyNone))

PreBuildCreate == PreBuildCalled("create", PreBuild_create(scene, module))

PreBuildFinish == PreBuildCalled("finish", PreBuild_finish(scene, module))

NextPreBuild == PreBuildCreateNode \/ PreBuildCreate \/ PreBuildFinish

SpecPreBuild == InitPreBuild /\ [][NextPreBuild]_vars

\* C19: PreBuild.create() returns True and changes nothing in the scene, for
\* any scene and any number of calls; PreBuild.finish() replaces the current
\* scene by a new empty scene regardless of unsaved changes, so that no node
\* created before finish() exists afterwards.
C19_PreBuild ==
    \A i \in 1..Len(calls) :
        /\ calls[i].op = "create"
            => /\ calls[i].raised = ""
               /\ calls[i].ret = TRUE
               /\ calls[i].scene_after = calls[i].scene_before
        /\ calls[i].op = "finish"
            => /\ calls[i].raised = ""
               /\ calls[i].scene_after.nodes = <<>>
               /\ calls[i].scene_after.conns = {}
               /\ calls[i].scene_after.constraints = {}
               /\ calls[i].scene_after.selection = <<>>
               /\ ~calls[i].scene_after.modified

\* create() was called twice and then finish(), in a scene that held nodes
\* and unsaved changes
C19_Witness ==
    /\ Len(calls) = 3
    /\ calls[1].op = "create" /\ calls[2].op = "create" /\ calls[3].op = "finish"
    /\ calls[3].scene_before.modified
    /\ calls[3].scene_before.nodes # <<>>
    /\ scene.nodes = <<>>

(***************************************************************************)
(* insert_transform by itself, in SpecGroups.                              *)
(***************************************************************************)
\* the object a call of insert_transform works on: the one named, or the
\* selected one as get_selected_node() answers it
InsertTarget(c) ==
    IF c.object_name # "" THEN c.object_name
    ELSE get_selected_node(c.scene_before, TRUE).ret

\* the name of the group of a call of insert_transform (lines 1455-1460)
InsertName(c) ==
    IF c.names[1] # "" THEN c.names[1]
    ELSE IF c.names[2] # "" THEN InsertTarget(c) \o "_" \o c.names[2]
    ELSE InsertTarget(c) \o "_par"

\* a call of insert_transform on a transform of the scene
InsertsAbove(c) ==
    /\ c.op = "insert_transform"
    /\ InsertTarget(c) # ""
    /\ cmds_objExists(c.scene_before, InsertTarget(c))
    /\ IsTransform(c.scene_before, NodeId(c.scene_before, InsertTarget(c)))

\* C21: when no node with the intended group name exists,
\* insert_transform(target, name) creates exactly one new group with that
\* name, places it at the target's world matrix, makes the target its only
\* child, and makes the group a child of the target's former parent (or
\* leaves it at the scene root when the target had no parent); the target's
\* world matrix and every other parent/child relation are unchanged.
C21_InsertCreatesGroup ==
    \A i \in 1..Len(calls) :
        LET c == calls[i]
            before == c.scene_before
        IN  (InsertsAbove(c) /\ ~cmds_objExists(before, InsertName(c)))
            => LET target == NodeId(before, InsertTarget(c))
                   made == NodeIds(scene) \ NodeIds(before)
               IN  /\ c.raised = ""
                   /\ c.ret = PyStr(InsertName(c))
                   /\ NodeIds(before) \subseteq NodeIds(scene)
                   /\ Cardinality(made) = 1
                   /\ \A grp \in made :
                        /\ scene.nodes[grp].name = InsertName(c)
                        /\ scene.nodes[grp].type = "transform"
                        /\ WorldMatrix(scene, grp) = WorldMatrix(before, target)
                        /\ {n \in NodeIds(scene) : scene.nodes[n].parent = grp} = {target}
                        /\ scene.nodes[grp].parent = before.nodes[target].parent
                   /\ WorldMatrix(scene, target) = WorldMatrix(before, target)
                   /\ \A n \in NodeIds(before) \ {target} :
                        /\ scene.nodes[n].parent = before.nodes[n].parent
                        /\ scene.nodes[n].name = before.nodes[n].name
                        /\ scene.nodes[n].attrs = before.nodes[n].attrs

\* a group was inserted between a posed controller and the root it is under
C21_Witness ==
    /\ calls # <<>>
    /\ InsertsAbove(calls[1])
    /\ ~cmds_objExists(calls[1].scene_before, InsertName(calls[1]))
    /\ calls[1].raised = ""
    /\ InsertTarget(calls[1]) = "ctrl"
    /\ ParentName(calls[1].scene_before, "ctrl") = "root"
    /\ cmds_objExists(scene, InsertName(calls[1]))
    /\ ParentName(scene, "ctrl") = InsertName(calls[1])
    /\ ParentName(scene, InsertName(calls[1])) = "root"

\* C22: when a node with the intended group name already exists,
\* insert_transform is a no-op: it creates no node, reparents nothing and
\* moves nothing, and still returns the intended group name, whether or not
\* that existing node is a parent of the target.
C22_InsertIsNoOp ==
    \A i \in 1..Len(calls) :
        (InsertsAbove(calls[i]) /\ cmds_objExists(calls[i].scene_before, InsertName(calls[i])))
        => /\ calls[i].raised = ""
           /\ calls[i].ret = PyStr(InsertName(calls[i]))
           /\ scene.nodes = calls[i].scene_before.nodes

\* insert_transform was asked for a group called as the parent of the target
C22_Witness ==
    /\ calls # <<>>
    /\ InsertsAbove(calls[1])
    /\ InsertTarget(calls[1]) = "ctrl"
    /\ InsertName(calls[1]) = "root"
    /\ ParentName(calls[1].scene_before, "ctrl") = "root"
    /\ calls[1].raised = ""
    /\ calls[1].ret = PyStr("root")

\* insert_transform was asked for a group called as a node that is not above
\* the target
C22_WitnessElsewhere ==
    /\ calls # <<>>
    /\ InsertsAbove(calls[1])
    /\ InsertName(calls[1]) = "g1"
    /\ cmds_objExists(calls[1].scene_before, "g1")
    /\ calls[1].raised = ""
    /\ calls[1].ret = PyStr("g1")

(***************************************************************************)
(* object_utils.get_connected_nodes, for a node given by name, with no     *)
(* find_attr and no with_shape.                                            *)
(***************************************************************************)
\* the nodes one connection away from a set of nodes, in a direction
GraphStep(sc, ids, direction) ==
    IF direction = "kUpstream"
    THEN {c[1][1] : c \in {d \in sc.conns : d[2][1] \in ids}}
    ELSE {c[2][1] : c \in {d \in sc.conns : d[1][1] \in ids}}

\* the nodes the iterator visits after a set of nodes already visited: the
\* ones one connection further, then the ones after them
RECURSIVE GraphWalk(_, _, _, _)
GraphWalk(sc, seen, frontier, direction) ==
    LET next == GraphStep(sc, frontier, direction) \ seen
    IN  IF next = {} THEN <<>>
        ELSE InSceneOrder(next) \o GraphWalk(sc, seen \cup next, next, direction)

\* OpenMaya.MItDependencyGraph(node, filter, direction, kPlugLevel), from
\* reset() to isDone(): the root, then what is connected to it in the
\* direction, of the nodes that have the function set of the filter.  The
\* direction is an enumeration value: the binding refuses None.
MItDependencyGraph(sc, node, filter, direction) ==
    IF direction = "None" THEN Raised(sc, "TypeError")
    ELSE Returned(sc, SelectSeq(<<node.id>> \o GraphWalk(sc, {node.id}, {node.id}, direction),
                                LAMBDA id : filter \in HostFnSets[sc.nodes[id].type]))

\* get_connected_nodes, lines 1137-1141: direction
DirectionOf(down_stream, up_stream) ==
    IF down_stream THEN "kDownstream"
    ELSE IF up_stream THEN "kUpstream"
    ELSE "None"

\* get_connected_nodes, lines 1163-1200: found_nodes
FoundNodes(sc, as_strings, dag_iter) ==
    IF dag_iter.raised # "" THEN dag_iter
    ELSE Returned(sc, [k \in 1..Len(dag_iter.ret) |->
                        IF as_strings THEN PyStr(sc.nodes[dag_iter.ret[k]].name)
                        ELSE MObject(dag_iter.ret[k])])

\* get_connected_nodes, lines 1143-1200, with the handle of the node
ConnectedTo(sc, node, find_node_type, as_strings, direction) ==
    IF node.raised # "" THEN Raised(sc, node.raised)
    ELSE IF find_node_type \notin DOMAIN node_types THEN Raised(sc, "KeyError")
    ELSE FoundNodes(sc, as_strings,
                    MItDependencyGraph(sc, node.ret, node_types[find_node_type], direction))

\* get_connected_nodes(object_name, find_node_type, as_strings, down_stream, up_stream)
get_connected_nodes(sc, object_name, find_node_type, as_strings, down_stream, up_stream) ==
    ConnectedTo(sc, get_m_obj(sc, PyStr(object_name)), find_node_type, as_strings,
                DirectionOf(down_stream, up_stream))

(***************************************************************************)
(* SpecGraph: get_connected_nodes in a scene where a controller drives a   *)
(* joint through a unit conversion and the joint drives a locator, with or *)
(* without a second controller driving the joint too.                      *)
(***************************************************************************)
\* arm_ctrl -> arm_conv -> arm_jnt -> arm_loc, and leg_ctrl -> arm_jnt
GraphScene(second, looped) ==
    LET s1 == AddNode(EmptyScene, "arm_ctrl", "transform", 0)
        s2 == AddNode(s1, "arm_conv", "unitConversion", 0)
        s3 == AddNode(s2, "arm_jnt", "joint", 0)
        s4 == AddNode(s3, "arm_loc", "transform", 0)
        s5 == AddNode(s4, "leg_ctrl", "transform", 0)
    IN  [s5 EXCEPT !.conns =
            {<<<<1, "rotateX">>, <<2, "input">>>>,
             <<<<2, "output">>, <<3, "rotateX">>>>,
             <<<<3, "translateX">>, <<4, "translateX">>>>}
            \cup (IF second THEN {<<<<5, "translateY">>, <<3, "translateY">>>>} ELSE {})
            \cup (IF looped THEN {<<<<4, "scaleX">>, <<5, "scaleX">>>>} ELSE {})]

InitGraph ==
    /\ \E second \in BOOLEAN, looped \in BOOLEAN : scene = GraphScene(second, looped)
    /\ module = NoModule
    /\ calls = <<>>
    /\ input = NoInput

GraphCalled(args, out) ==
    /\ scene' = out.scene
    /\ calls' = <<[op |-> "get_connected_nodes", args |-> args,
                   raised |-> out.raised, ret |-> out.ret, scene_before |-> scene]>>
    /\ UNCHANGED <<module, input>>

GetConnectedNodes ==
    /\ calls = <<>>
    /\ \E args \in [object_name : {"arm_ctrl", "arm_conv", "arm_jnt", "arm_loc", "missing"},
                    find_node_type : {"transform", "joint", "unitConversion"},
                    as_strings : BOOLEAN, down_stream : BOOLEAN, up_stream : BOOLEAN] :
        GraphCalled(args, get_connected_nodes(scene, args.object_name, args.find_node_type,
                                              args.as_strings, args.down_stream,
                                              args.up_stream))

NextGraph == GetConnectedNodes

SpecGraph == InitGraph /\ [][NextGraph]_vars

\* the nodes that can be reached from a node along the connections, in a
\* direction
RECURSIVE Reachable(_, _, _)
Reachable(sc, ids, direction) ==
    LET more == ids \cup GraphStep(sc, ids, direction)
    IN  IF more = ids THEN ids ELSE Reachable(sc, more, direction)

\* whether a call answered with the nodes of the type asked for that lie in
\* a direction from the node (the node itself apart)
Traversed(c, direction) ==
    LET sc == c.scene_before
        root == NodeId(sc, c.args.object_name)
        there == {id \in GraphStep(sc, Reachable(sc, {root}, direction), direction) \ {root} :
                    node_types[c.args.find_node_type] \in HostFnSets[sc.nodes[id].type]}
        found == {IF c.args.as_strings THEN NodeId(sc, c.ret[k].str) ELSE c.ret[k].id :
                    k \in 1..Len(c.ret)}
    IN  /\ c.raised = ""
        /\ found \ {root} = there

\* C23: get_connected_nodes traverses the dependency graph upstream only when
\* up_stream is set and down_stream is not; in every other combination of
\* the two flags (only down_stream set, both set, both unset) it traverses
\* downstream.
C23_DirectionOfTraversal ==
    \A i \in 1..Len(calls) :
        cmds_objExists(calls[i].scene_before, calls[i].args.object_name)
        => IF calls[i].args.up_stream /\ ~calls[i].args.down_stream
           THEN Traversed(calls[i], "kUpstream")
           ELSE Traversed(calls[i], "kDownstream")

(***************************************************************************)
(* control_utils: locators and snap_control_to_selected_locator.           *)
(***************************************************************************)
\* cmds.ls(sl=1, type='transform'): the selected transforms
cmds_ls_sl_transforms(sc) ==
    LET order == InSceneOrder({sc.selection[k] : k \in 1..Len(sc.selection)})
        names == [k \in 1..Len(order) |-> sc.nodes[order[k]].name]
    IN  SelectSeq(names, LAMBDA n : IsTransform(sc, NodeId(sc, n)))

\* copy_xform(object_1, object_2), lines 102-103: the matrix is set on object_2
CopyMatrix(sc, object_2, x_mat) ==
    IF x_mat.raised # "" THEN x_mat
    ELSE Answered(cmds_xform(sc, object_2, "m", x_mat.ret, TRUE), TRUE)

\* copy_xform(object_1, object_2): the world matrix read on object_1 is set on
\* object_2
copy_xform(sc, object_1, object_2) ==
    CopyMatrix(sc, object_2, cmds_xform_query(sc, object_1, "m", TRUE))

check_locator_suffix_name(object_name) ==
    IF StrIn(SuffixName(LOCATOR_SUFFIX), object_name) THEN TRUE ELSE FALSE

remove_locator_suffix_name(object_name) ==
    StrRPartitionHead(object_name, SuffixName(LOCATOR_SUFFIX))

\* the loop of snap_control_to_selected_locator, from the k-th selected
\* transform on
RECURSIVE SnapEach(_, _, _)
SnapEach(out, selected, k) ==
    IF out.raised # "" THEN out
    ELSE IF k > Len(selected) THEN Returned(out.scene, TRUE)
    ELSE IF ~check_locator_suffix_name(selected[k]) THEN SnapEach(out, selected, k + 1)
    ELSE SnapEach(copy_xform(out.scene, remove_locator_suffix_name(selected[k]), selected[k]),
                  selected, k + 1)

\* snap_control_to_selected_locator()
snap_control_to_selected_locator(sc) ==
    SnapEach(Returned(sc, TRUE), cmds_ls_sl_transforms(sc), 1)

(***************************************************************************)
(* SpecLocator: snap_control_to_selected_locator in a scene with two       *)
(* controllers, one of them under a posed group, the locators made for     *)
(* them, posed elsewhere, and any selection.                               *)
(***************************************************************************)
\* rig_grp > arm_ctrl, leg_ctrl, arm_ctrl_loc, leg_ctrl_loc
LocatorScene(arm_pose, leg_pose) ==
    LET s1 == AddNode(EmptyScene, "rig_grp", "transform", 0)
        s2 == AddNode(s1, "arm_ctrl", "transform", 1)
        s3 == AddNode(s2, "leg_ctrl", "transform", 0)
        s4 == AddNode(s3, "arm_ctrl_loc", "transform", 0)
        s5 == AddNode(s4, "leg_ctrl_loc", "transform", 0)
    IN  WithLocalMatrix(WithLocalMatrix(WithLocalMatrix(WithLocalMatrix(s5,
            1, Matrix(1, 1)), 2, Matrix(1, 0)), 4, Matrix(arm_pose, 2)), 5, Matrix(leg_pose, 1))

InitLocator ==
    /\ \E arm_pose \in 0..MaxAttrValue, leg_pose \in 0..MaxAttrValue,
          picked \in {<<>>, <<4>>, <<5>>, <<4, 5>>, <<5, 4>>, <<3>>, <<2, 4>>, <<1, 3>>} :
        scene = Selected(LocatorScene(arm_pose, leg_pose), picked)
    /\ module = NoModule
    /\ calls = <<>>
    /\ input = NoInput

LocatorCalled(out) ==
    /\ scene' = out.scene
    /\ calls' = <<[op |-> "snap_control_to_selected_locator",
                   raised |-> out.raised, ret |-> out.ret, scene_before |-> scene]>>
    /\ UNCHANGED <<module, input>>

SnapControlToSelectedLocator ==
    /\ calls = <<>>
    /\ LocatorCalled(snap_control_to_selected_locator(scene))

NextLocator == SnapControlToSelectedLocator

SpecLocator == InitLocator /\ [][NextLocator]_vars

\* the selected transforms of a scene whose name carries the locator suffix
SelectedLocators(sc) ==
    {id \in {sc.selection[k] : k \in 1..Len(sc.selection)} :
        /\ IsTransform(sc, id)
        /\ StrIn("_loc", sc.nodes[id].name)}

\* C24: snap_control_to_selected_locator() copies, for each selected
\* transform whose name carries the locator suffix _loc, that locator's world
\* matrix onto the control named by stripping the suffix: afterwards the
\* control's world matrix equals the locator's matrix from before the call,
\* the locator's matrix is unchanged, and selected transforms without the
\* suffix cause no change.
C24_ControlSnappedToLocator ==
    \A i \in 1..Len(calls) :
        LET before == calls[i].scene_before
        IN  /\ calls[i].raised = ""
            /\ calls[i].ret = TRUE
            /\ \A loc \in SelectedLocators(before) :
                /\ WorldMatrix(scene, loc) = WorldMatrix(before, loc)
                /\ WorldMatrix(scene, NodeId(before, StrRPartitionHead(before.nodes[loc].name,
                                                                      "_loc")))
                     = WorldMatrix(before, loc)
            /\ SelectedLocators(before) = {} => scene.nodes = before.nodes

(***************************************************************************)
(* object_utils.get_scene_objects, without find_attr.                      *)
(***************************************************************************)
\* has_fn(cur_item, shape_type) as a truth value
ItemHasFn(sc, id, shape_type) ==
    Truthy(HasFnOfHandle(sc, MObject(id), PyStr(shape_type)).ret)

\* get_scene_objects, lines 750-756 and 758-764: what a node that passed the
\* test of dag adds to items.  0: nothing, 1: o_name, 2: the test of the name
\* cannot be made on a handle
ItemOfType(sc, id, name, as_strings, node_type) ==
    IF node_type # "" /\ ItemHasFn(sc, id, node_type)
    THEN IF name # "" /\ ~as_strings THEN 2
         ELSE IF name # "" /\ StrIn(name, sc.nodes[id].name) THEN 1
         ELSE 1
    ELSE IF node_type = "" THEN 1
    ELSE 0

\* get_scene_objects, lines 749 and 757: one node of the iteration
ItemOfScene(sc, id, name, as_strings, node_type, dag) ==
    IF dag /\ ItemHasFn(sc, id, "dag") THEN ItemOfType(sc, id, name, as_strings, node_type)
    ELSE IF ~dag THEN ItemOfType(sc, id, name, as_strings, node_type)
    ELSE 0

\* get_scene_objects, lines 745-748: o_name
ItemName(sc, id, as_strings) ==
    IF as_strings THEN PyStr(get_m_object_name(sc, MObject(id))) ELSE MObject(id)

\* get_scene_objects(name, as_strings, node_type, dag)
get_scene_objects(sc, name, as_strings, node_type, dag) ==
    IF \E id \in NodeIds(sc) : ItemOfScene(sc, id, name, as_strings, node_type, dag) = 2
    THEN Raised(sc, "TypeError")
    ELSE Returned(sc, [k \in 1..Len(SelectSeq(InSceneOrder(NodeIds(sc)),
                            LAMBDA id : ItemOfScene(sc, id, name, as_strings, node_type, dag) = 1))
                       |-> ItemName(sc, SelectSeq(InSceneOrder(NodeIds(sc)),
                            LAMBDA id : ItemOfScene(sc, id, name, as_strings, node_type, dag) = 1)[k],
                            as_strings)])

(***************************************************************************)
(* SpecScene: get_scene_objects in a scene with one node of each type, as  *)
(* it is and with an arm controller and an arm joint added.                *)
(***************************************************************************)
ObjectsScene(with_arm) ==
    IF with_arm
    THEN AddNode(AddNode(TypeScene, "arm_ctrl", "transform", 0), "arm_jnt", "joint", 0)
    ELSE TypeScene

InitScene ==
    /\ \E with_arm \in BOOLEAN : scene = ObjectsScene(with_arm)
    /\ module = NoModule
    /\ calls = <<>>
    /\ input = NoInput

SceneCalled(args, out) ==
    /\ scene' = out.scene
    /\ calls' = <<[op |-> "get_scene_objects", args |-> args,
                   raised |-> out.raised, ret |-> out.ret, scene_before |-> scene]>>
    /\ UNCHANGED <<module, input>>

GetSceneObjects ==
    /\ calls = <<>>
    /\ \E args \in [name : {"", "ctrl", "arm", "Shape"}, as_strings : BOOLEAN,
                    node_type : {"", "transform", "joint", "dag", "mesh", "bogus"},
                    dag : BOOLEAN] :
        SceneCalled(args, get_scene_objects(scene, args.name, args.as_strings,
                                            args.node_type, args.dag))

NextScene == GetSceneObjects

SpecScene == InitScene /\ [][NextScene]_vars

\* whether a node passes the dag and type filters of a call
PassesFilters(sc, id, args) ==
    /\ args.dag => "kDagNode" \in HostFnSets[sc.nodes[id].type]
    /\ args.node_type # ""
        => /\ args.node_type \in DOMAIN node_types
           /\ node_types[args.node_type] \in HostFnSets[sc.nodes[id].type]

\* C25: get_scene_objects filters by substring-in-name: when called with
\* as_strings=True and a non-empty name (with or without a node_type and the
\* dag flag), every returned node name contains name as a substring, and
\* every scene node that passes the dag and type filters and contains name is
\* returned.
C25_NameFilter ==
    \A i \in 1..Len(calls) :
        LET c == calls[i]
            sc == c.scene_before
        IN  (c.args.as_strings /\ c.args.name # "")
            => /\ c.raised = ""
               /\ \A k \in 1..Len(c.ret) : StrIn(c.args.name, c.ret[k].str)
               /\ \A id \in NodeIds(sc) :
                    (PassesFilters(sc, id, c.args) /\ StrIn(c.args.name, sc.nodes[id].name))
                    => \E k \in 1..Len(c.ret) : c.ret[k].str = sc.nodes[id].name

(***************************************************************************)
(* get_transform_relatives asked for both kinds of relatives, in SpecRel.  *)
(***************************************************************************)
\* C26: get_transform_relatives requires exactly one of find_parent /
\* find_child: called with a non-empty object name and both find_parent and
\* find_child set, it raises ValueError instead of returning a result.
C26_RelativesRefusesBoth ==
    \A i \in 1..Len(calls) :
        (/\ calls[i].op = "get_transform_relatives"
         /\ calls[i].args.object_name # ""
         /\ Truthy(calls[i].args.find_parent)
         /\ Truthy(calls[i].args.find_child))
        => calls[i].raised = "ValueError"

(***************************************************************************)
(* SpecCurves: parent_curve_shapes called on one, two or three of the      *)
(* three curves of a scene, each a transform over one curve shape, in any  *)
(* order.                                                                  *)
(***************************************************************************)
\* curve1 > curveShape1, curve2 > curveShape2, curve3 > curveShape3, and may
\* be a group over the first curve
CurvesScene(grouped, geometry) ==
    LET s1 == AddNode(EmptyScene, "curve1", "transform", 0)
        s2 == WithCurveShape(s1, "curveShape1", 1, LineGeometry)
        s3 == AddNode(s2, "curve2", "transform", 0)
        s4 == WithCurveShape(s3, "curveShape2", 3, geometry)
        s5 == AddNode(s4, "curve3", "transform", 0)
        s6 == WithCurveShape(s5, "curveShape3", 5, EdgeGeometry)
    IN  IF grouped
        THEN [AddNode(s6, "curves_grp", "transform", 0) EXCEPT !.nodes[1].parent = 7]
        ELSE s6

\* the sequences without repetition over a set of names
RECURSIVE Arrangements(_)
Arrangements(names) ==
    {<<>>} \cup UNION {{<<n>> \o rest : rest \in Arrangements(names \ {n})} : n \in names}

InitCurves ==
    /\ \E grouped \in BOOLEAN, geometry \in {LineGeometry, ArcGeometry},
          picked \in {<<>>, <<1>>, <<5, 3>>} :
        scene = Selected(CurvesScene(grouped, geometry), picked)
    /\ module = NoModule
    /\ calls = <<>>
    /\ input = NoInput

CurvesCalled(curve_names, out) ==
    /\ scene' = out.scene
    /\ calls' = <<[op |-> "parent_curve_shapes", curve_names |-> curve_names,
                   raised |-> out.raised, ret |-> out.ret, scene_before |-> scene]>>
    /\ UNCHANGED <<module, input>>

ParentCurveShapes ==
    /\ calls = <<>>
    /\ \E curve_names \in Arrangements({"curve1", "curve2", "curve3"}) \ {<<>>} :
        CurvesCalled(curve_names, parent_curve_shapes(scene, curve_names))

NextCurves == ParentCurveShapes

SpecCurves == InitCurves /\ [][NextCurves]_vars

\* the shapes under a transform, by name
ShapesUnder(sc, name) ==
    {sc.nodes[i].name : i \in {j \in NodeIds(sc) :
        /\ sc.nodes[j].parent = NodeId(sc, name)
        /\ sc.nodes[j].type = "nurbsCurve"}}

\* C27: parent_curve_shapes(curve_names) returns the last name of the input;
\* for an input of two or more curves it reparents the shape node of every
\* curve but the last under the last curve's transform and deletes every
\* transform but the last, so that afterwards exactly one of the input
\* transforms exists and it carries all the shapes; for an input of one curve
\* it changes nothing in the scene.
C27_ShapesMerged ==
    \A i \in 1..Len(calls) :
        LET c == calls[i]
            before == c.scene_before
            n == Len(c.curve_names)
            last == c.curve_names[n]
        IN  /\ c.raised = ""
            /\ c.ret = last
            /\ n = 1 => scene = before
            /\ n >= 2 =>
                /\ {c.curve_names[k] : k \in 1..n} \cap NodeNames(scene) = {last}
                /\ ShapesUnder(scene, last)
                     = UNION {ShapesUnder(before, c.curve_names[k]) : k \in 1..n}
                /\ \A id \in NodeIds(scene) :
                    /\ scene.nodes[id].name = before.nodes[id].name
                    /\ scene.nodes[id].attrs = before.nodes[id].attrs
                    /\ scene.nodes[id].type # "nurbsCurve"
                        => scene.nodes[id].parent = before.nodes[id].parent
                /\ NodeIds(before) \ NodeIds(scene)
                     = {NodeId(before, c.curve_names[k]) : k \in 1..(n - 1)}

\* three curves were merged into the last named, which was the first made
C27_Witness ==
    /\ calls # <<>>
    /\ calls[1].op = "parent_curve_shapes"
    /\ calls[1].raised = ""
    /\ calls[1].curve_names = <<"curve3", "curve2", "curve1">>
    /\ calls[1].ret = "curve1"
    /\ ShapesUnder(scene, "curve1") = {"curveShape1", "curveShape2", "curveShape3"}
    /\ ~cmds_objExists(scene, "curve2")
    /\ ~cmds_objExists(scene, "curve3")

(***************************************************************************)
(* object_utils.Item.filter_array_by_regex.  Regular expressions are the   *)
(* patterns made of literal characters and of the dot, searched as re      *)
(* does; the modifier flags are I (ignore case), S (the dot matches the    *)
(* line feed too) and X (white space in the pattern is not part of it).    *)
(***************************************************************************)
\* str.lower() of a character
ReLower(ch) ==
    CASE ch = "A" -> "a"
      [] ch = "B" -> "b"
      [] OTHER -> ch

\* whether a character of the pattern matches a character of the text
ReCharMatches(p, ch, flags) ==
    IF p = "." THEN ch # "\n" \/ "S" \in flags
    ELSE IF "I" \in flags THEN ReLower(p) = ReLower(ch)
    ELSE p = ch

\* whether a pattern matches at the start of a text
RECURSIVE ReMatchHere(_, _, _)
ReMatchHere(pattern, flags, text) ==
    IF pattern = "" THEN TRUE
    ELSE IF "X" \in flags /\ SubSeq(pattern, 1, 1) \in {" ", "\n"}
    THEN ReMatchHere(SubSeq(pattern, 2, Len(pattern)), flags, text)
    ELSE IF text = "" THEN FALSE
    ELSE /\ ReCharMatches(SubSeq(pattern, 1, 1), SubSeq(text, 1, 1), flags)
         /\ ReMatchHere(SubSeq(pattern, 2, Len(pattern)), flags, SubSeq(text, 2, Len(text)))

\* re.compile(search, flags)
re_compile(search, flags) == [pattern |-> search, flags |-> flags]

\* re_search.search(x): whether the pattern matches somewhere in x
re_search(re, x) ==
    \E k \in 0..Len(x) : ReMatchHere(re.pattern, re.flags, SubSeq(x, k + 1, Len(x)))

\* the flags of filter_array_by_regex were every one that is set given to
\* re.compile
ReFlagsCombined(ignore_case, dot_all, verbose) ==
    (IF ignore_case THEN {"I"} ELSE {}) \cup (IF dot_all THEN {"S"} ELSE {})
        \cup (IF verbose THEN {"X"} ELSE {})

\* filter_array_by_regex, lines 1741-1748: the flags given to re.compile
ReFlags(ignore_case, dot_all, verbose) ==
    IF ignore_case THEN {"I"}
    ELSE IF dot_all THEN {"S"}
    ELSE IF verbose THEN {"X"}
    ELSE {}

\* Item.filter_array_by_regex(array_objects, search, ignore_case, dot_all, verbose)
filter_array_by_regex(array_objects, search, ignore_case, dot_all, verbose) ==
    SelectSeq(array_objects,
              LAMBDA x : re_search(re_compile(search, ReFlags(ignore_case, dot_all, verbose)), x))

(***************************************************************************)
(* SpecRegex: filter_array_by_regex on arrays of attribute names with      *)
(* every combination of the three flags.                                   *)
(***************************************************************************)
RegexSearches == {"", "ab", "a.b", "a b", ".B", "b ."}

RegexArrays ==
    {<<>>,
     <<"ab", "AB", "a\nb", "a b">>,
     <<"AXB", "ab", "xAB", "A\nB", "b">>,
     <<"a b", "B a", "b\n", "ab", "ab">>}

InitRegex ==
    /\ scene = EmptyScene
    /\ module = NoModule
    /\ calls = <<>>
    /\ input \in [array_objects : RegexArrays, search : RegexSearches,
                  ignore_case : BOOLEAN, dot_all : BOOLEAN, verbose : BOOLEAN]

FilterArrayByRegex ==
    /\ calls = <<>>
    /\ calls' = <<[op |-> "filter_array_by_regex", args |-> input,
                   ret |-> filter_array_by_regex(input.array_objects, input.search,
                                                 input.ignore_case, input.dot_all,
                                                 input.verbose)]>>
    /\ UNCHANGED <<scene, module, input>>

NextRegex == FilterArrayByRegex

SpecRegex == InitRegex /\ [][NextRegex]_vars

\* the one flag a call is to apply: the first that is set, in the order
\* ignore_case, dot_all, verbose
FirstFlagSet(args) ==
    CASE args.ignore_case -> {"I"}
      [] ~args.ignore_case /\ args.dot_all -> {"S"}
      [] ~args.ignore_case /\ ~args.dot_all /\ args.verbose -> {"X"}
      [] OTHER -> {}

MObject_isNull(sc, m_object) == m_object.id \notin NodeIds(sc)

\* is_exists, line 247: not m_obj.isNull()
ExistsNotNull(sc, m_obj) ==
    IF m_obj.kind # "MObject" THEN Raised(sc, "AttributeError")
    ELSE Returned(sc, ~MObject_isNull(sc, m_obj))

\* is_exists without the try of lines 243-246: the failure goes to the caller
ExistsOfHandleUncaught(sc, m_obj) ==
    IF m_obj.raised # "" THEN Raised(sc, m_obj.raised)
    ELSE ExistsNotNull(sc, m_obj.ret)

\* is_exists, lines 243-247, with what get_m_obj answered
ExistsOfHandle(sc, m_obj) ==
    IF m_obj.raised = "RuntimeError" THEN Returned(sc, FALSE)
    ELSE IF m_obj.raised # "" THEN Raised(sc, m_obj.raised)
    ELSE ExistsNotNull(sc, m_obj.ret)

\* is_exists(object_name)
is_exists(sc, object_name) == ExistsOfHandle(sc, get_m_obj(sc, object_name))

(***************************************************************************)
(* SpecExists: is_exists asked about names and handles, in a scene of      *)
(* three nodes with a selection, before and after nodes are deleted.       *)
(***************************************************************************)
MaxExistsCalls == 2

InitExists ==
    /\ \E picked \in {<<>>, <<1>>, <<3, 1>>, <<2>>}, pref \in BOOLEAN :
        scene = cmds_selectPref(Selected(SelScene, picked), pref)
    /\ module = NoModule
    /\ calls = <<>>
    /\ input = NoInput

ExistsCalled(op, object_name, out) ==
    /\ Len(calls) < MaxExistsCalls
    /\ scene' = out.scene
    /\ calls' = Append(calls, [op |-> op, object_name |-> object_name,
                               raised |-> out.raised, ret |-> out.ret,
                               scene_before |-> scene, scene_after |-> out.scene])
    /\ UNCHANGED <<module, input>>

IsExists ==
    \E object_name \in {PyStr(n) : n \in {"arm_ctrl", "arm_ctrlShape", "leg_jnt", "arm", "leg_jnt1",
                                          "missing", ""}}
                       \cup {MObject(3)} :
        ExistsCalled("is_exists", object_name, is_exists(scene, object_name))

\* a node is deleted from the scene
ExistsDelete ==
    \E name \in {"arm_ctrl", "leg_jnt"} :
        /\ cmds_objExists(scene, name)
        /\ ExistsCalled("delete", PyStr(name), cmds_delete(scene, <<name>>))

NextExists == IsExists \/ ExistsDelete

SpecExists == InitExists /\ [][NextExists]_vars

\* C29: is_exists(object_name) never propagates a resolution failure: for a
\* name that does not resolve to a node in the active scene it returns
\* False, for a name that resolves to a live node it returns True, and it
\* never changes the scene or the selection.
C29_IsExists ==
    \A i \in 1..Len(calls) :
        (calls[i].op = "is_exists" /\ calls[i].object_name.kind = "str")
        => /\ calls[i].raised = ""
           /\ calls[i].ret = (calls[i].object_name.str \in NodeNames(calls[i].scene_before))
           /\ calls[i].scene_after = calls[i].scene_before

\* a node was deleted while nodes were selected, and is_exists then answered
\* False for its name
C29_Witness ==
    /\ Len(calls) = 2
    /\ calls[1].op = "delete"
    /\ calls[2].op = "is_exists"
    /\ calls[2].object_name = calls[1].object_name
    /\ calls[2].raised = ""
    /\ calls[2].ret = FALSE
    /\ scene.selection # <<>>

\* is_exists answered True for the name of a live node
C29_WitnessLive ==
    /\ calls # <<>>
    /\ calls[1].op = "is_exists"
    /\ calls[1].object_name = PyStr("arm_ctrlShape")
    /\ calls[1].raised = ""
    /\ calls[1].ret = TRUE

(***************************************************************************)
(* The list of guide joints of a Singleton module, in SpecModule.          *)
(***************************************************************************)
\* the number of calls of a method made on the module since construction
CallsOf(op) == Cardinality({i \in 1..Len(calls) : calls[i].op = op})

\* C30: Singleton.create() has no existence guard: each call appends exactly
\* one entry to the module's guide-joint list, so after any sequence of
\* module operations the length of that list equals the number of create()
\* calls made since construction (rename, finish and remove never change
\* it), and a module with name n is not limited to a single guide joint.
C30_GuideJointsCountCreates ==
    /\ Len(module.guide_joints) = CallsOf("create")
    /\ \A i \in 1..Len(calls) : calls[i].op = "create" => calls[i].raised = ""

\* a module that was created twice, renamed and removed holds two guide
\* joints
C30_Witness ==
    /\ module.name = "arm"
    /\ CallsOf("create") = 2
    /\ CallsOf("rename") = 1
    /\ CallsOf("remove") = 1
    /\ Len(module.guide_joints) = 2
    /\ module.guide_joints[1] # module.guide_joints[2]

====
